---- MODULE Spec2Model ----
(***************************************************************************)
(* Model of the networked chess subsystem: ChessGame / Player /            *)
(* ChessServer of src/chess/chess_server.py and the move-legality rules    *)
(* of ModernChessClient in src/chess/chess_client.py.                      *)
(*                                                                         *)
(* One action models one whole handler of the server (one protocol         *)
(* message processed by process_player_message, one accepted connection,   *)
(* one disconnect_player).                                                 *)
(***************************************************************************)
EXTENDS Integers, Sequences, FiniteSets, TLC

(* ---------------------------------------------------------------------- *)
(* Bounds of the exploration (not program constants)                       *)
(* ---------------------------------------------------------------------- *)

\* number of connections the accept loop hands out
MaxPlayers == 3

\* number of create_game requests explored
MaxGames == 2

\* number of state-changing operations (accepted connections, created games,
\* successful joins, move-log appends, disconnects) explored in one behaviour
\* that starts from the freshly constructed server
LobbySteps == 4

\* number of state-changing operations explored in one behaviour that starts
\* from a game in progress
MaxSteps == 2

\* number of knight moves already played in the long game SpecLong starts from
ShuffleLen == 199

\* number of requests and connection events (accepted connections,
\* create_game and join_game messages, connections that end) explored in
\* one behaviour of the threads of SpecThreads
ThreadSteps == 3
MaxDist == 2

(* ---------------------------------------------------------------------- *)
(* Values                                                                  *)
(* ---------------------------------------------------------------------- *)

\* Python None for string-valued fields (pieces, names, results, is_white)
None == "None"

\* Python None for a reference to a Player (ids are 1..MaxPlayers)
NoPlayer == 0

\* Python None for a reference to a ChessGame (ids start at 1)
NoGame == 0

\* the draw threshold of check_game_over: len(self.moves) > 200
MoveLimit == 200

PlayerIds == 1..MaxPlayers

Rows == 0..7

Squares == Rows \X Rows

WhitePieces == {"P", "N", "B", "R", "Q", "K"}

BlackPieces == {"p", "n", "b", "r", "q", "k"}

\* str.isupper() on a piece letter (None is handled by the callers)
isupper(piece) == piece \in WhitePieces

\* str.islower() on a piece letter
islower(piece) == piece \in BlackPieces

\* str.upper() on a piece letter
upper(piece) ==
    CASE piece \in {"P", "p"} -> "P"
      [] piece \in {"N", "n"} -> "N"
      [] piece \in {"B", "b"} -> "B"
      [] piece \in {"R", "r"} -> "R"
      [] piece \in {"Q", "q"} -> "Q"
      [] piece \in {"K", "k"} -> "K"

\* Player.__init__: name = name or f"Player-{client_id[-4:]}"
DefaultName(p) ==
    CASE p = 1 -> "Player-1"
      [] p = 2 -> "Player-2"
      [] p = 3 -> "Player-3"
      [] OTHER -> "Player-n"

\* the name a message carries ('winner': game.winner.name if game.winner else None)
NameOf(pname, p) == IF p = NoPlayer THEN None ELSE pname[p]

\* ChessGame.create_initial_board
create_initial_board ==
    [sq \in Squares |->
        CASE sq[1] = 1 -> "p"
          [] sq[1] = 6 -> "P"
          [] sq[1] = 0 /\ sq[2] \in {0, 7} -> "r"
          [] sq[1] = 0 /\ sq[2] \in {1, 6} -> "n"
          [] sq[1] = 0 /\ sq[2] \in {2, 5} -> "b"
          [] sq[1] = 0 /\ sq[2] = 3 -> "q"
          [] sq[1] = 0 /\ sq[2] = 4 -> "k"
          [] sq[1] = 7 /\ sq[2] \in {0, 7} -> "R"
          [] sq[1] = 7 /\ sq[2] \in {1, 6} -> "N"
          [] sq[1] = 7 /\ sq[2] \in {2, 5} -> "B"
          [] sq[1] = 7 /\ sq[2] = 3 -> "Q"
          [] sq[1] = 7 /\ sq[2] = 4 -> "K"
          [] OTHER -> None]

\* ChessGame.__init__
NewGame(game_id, host_player) ==
    [id |-> game_id,
     host |-> host_player,
     guest |-> NoPlayer,
     board |-> create_initial_board,
     current_turn |-> "white",
     moves |-> << >>,
     is_over |-> FALSE,
     winner |-> NoPlayer,
     result |-> None]

\* a Python list index that does not raise: -8..7 (anything else, and any
\* non-integer such as a missing coordinate, raises IndexError / TypeError)
ValidIndex(i) == i \in -8..7

\* the cell a valid Python list index of an 8-element list selects
Index(i) == IF i < 0 THEN i + 8 ELSE i

OtherTurn(turn) == IF turn = "white" THEN "black" ELSE "white"

(* ---------------------------------------------------------------------- *)
(* Rules engine: ModernChessClient.is_valid_move and its helpers           *)
(* (board is self.board, white is self.is_white)                           *)
(* ---------------------------------------------------------------------- *)

Abs(n) == IF n < 0 THEN -n ELSE n

\* a pawn that may advance two squares from every rank
is_valid_pawn_move_from_any_rank(board, piece, from_row, from_col, to_row, to_col) ==
    LET direction == IF isupper(piece) THEN -1 ELSE 1
        target == board[<<to_row, to_col>>]
    IN  \/ /\ from_col = to_col
           /\ to_row = from_row + direction
           /\ target = None
        \/ /\ from_col = to_col
           /\ to_row = from_row + 2 * direction
           /\ board[<<from_row + direction, from_col>>] = None
           /\ target = None
        \/ /\ Abs(from_col - to_col) = 1
           /\ to_row = from_row + direction
           /\ target # None
           /\ \/ isupper(piece) /\ islower(target)
              \/ islower(piece) /\ isupper(target)

\* a pawn that may step diagonally onto an empty cell
is_valid_pawn_move_diagonal_free(board, piece, from_row, from_col, to_row, to_col) ==
    LET direction == IF isupper(piece) THEN -1 ELSE 1
        target == board[<<to_row, to_col>>]
    IN  \/ /\ from_col = to_col
           /\ to_row = from_row + direction
           /\ target = None
        \/ /\ from_col = to_col
           /\ \/ isupper(piece) /\ from_row = 6 /\ to_row = 4
              \/ islower(piece) /\ from_row = 1 /\ to_row = 3
           /\ board[<<from_row + direction, from_col>>] = None
           /\ target = None
        \/ /\ Abs(from_col - to_col) = 1
           /\ to_row = from_row + direction

\* ModernChessClient.is_valid_pawn_move
is_valid_pawn_move(board, piece, from_row, from_col, to_row, to_col) ==
    LET direction == IF isupper(piece) THEN -1 ELSE 1
        target == board[<<to_row, to_col>>]
    IN  \/ /\ from_col = to_col
           /\ to_row = from_row + direction
           /\ target = None
        \/ /\ from_col = to_col
           /\ \/ isupper(piece) /\ from_row = 6 /\ to_row = 4
              \/ islower(piece) /\ from_row = 1 /\ to_row = 3
           /\ board[<<from_row + direction, from_col>>] = None
           /\ target = None
        \/ /\ Abs(from_col - to_col) = 1
           /\ to_row = from_row + direction
           /\ target # None
           /\ \/ isupper(piece) /\ islower(target)
              \/ islower(piece) /\ isupper(target)

\* range(first + step, last, step) for step = 1 if last > first else -1
Between(first, last) ==
    IF last > first THEN {i \in Rows : first < i /\ i < last}
    ELSE {i \in Rows : last < i /\ i < first}

\* a rook that looks at the line only, not at the cells on the way
is_valid_rook_move_jumps(board, from_row, from_col, to_row, to_col) ==
    from_row = to_row \/ from_col = to_col

\* ModernChessClient.is_valid_rook_move
is_valid_rook_move(board, from_row, from_col, to_row, to_col) ==
    IF from_row # to_row /\ from_col # to_col THEN FALSE
    ELSE IF from_row = to_row
    THEN \A col \in Between(from_col, to_col) : board[<<from_row, col>>] = None
    ELSE \A row \in Between(from_row, to_row) : board[<<row, from_col>>] = None

\* ModernChessClient.is_valid_knight_move
is_valid_knight_move(from_row, from_col, to_row, to_col) ==
    LET row_diff == Abs(to_row - from_row)
        col_diff == Abs(to_col - from_col)
    IN  (row_diff = 2 /\ col_diff = 1) \/ (row_diff = 1 /\ col_diff = 2)

\* ModernChessClient.is_valid_bishop_move, for from # to (is_valid_move has
\* rejected from = to before it gets here: the target is the piece itself).
\* The while loop visits from + k * (row_step, col_step) for k = 1, 2, ...
\* until the row or the column reaches the destination's.
is_valid_bishop_move(board, from_row, from_col, to_row, to_col) ==
    IF Abs(to_row - from_row) # Abs(to_col - from_col) THEN FALSE
    ELSE LET row_step == IF to_row > from_row THEN 1 ELSE -1
             col_step == IF to_col > from_col THEN 1 ELSE -1
         IN  \A k \in 1..(Abs(to_row - from_row) - 1) :
                 board[<<from_row + k * row_step, from_col + k * col_step>>] = None

\* a king that reaches two cells far
is_valid_king_move_two_steps(from_row, from_col, to_row, to_col) ==
    Abs(to_row - from_row) <= 2 /\ Abs(to_col - from_col) <= 2

\* ModernChessClient.is_valid_king_move
is_valid_king_move(from_row, from_col, to_row, to_col) ==
    Abs(to_row - from_row) <= 1 /\ Abs(to_col - from_col) <= 1

\* is_valid_move without the look at the colour of the target
is_valid_move_onto_friends(board, white, from_row, from_col, to_row, to_col) ==
    IF from_row < 0 \/ from_row > 7 \/ from_col < 0 \/ from_col > 7 THEN FALSE
    ELSE IF to_row < 0 \/ to_row > 7 \/ to_col < 0 \/ to_col > 7 THEN FALSE
    ELSE LET piece == board[<<from_row, from_col>>]
             target == board[<<to_row, to_col>>]
         IN  IF piece = None THEN FALSE
             ELSE IF white /\ islower(piece) THEN FALSE
             ELSE IF ~white /\ isupper(piece) THEN FALSE
             ELSE CASE upper(piece) = "P" ->
                          is_valid_pawn_move(board, piece, from_row, from_col, to_row, to_col)
                    [] upper(piece) = "R" ->
                          is_valid_rook_move(board, from_row, from_col, to_row, to_col)
                    [] upper(piece) = "N" ->
                          is_valid_knight_move(from_row, from_col, to_row, to_col)
                    [] upper(piece) = "B" ->
                          is_valid_bishop_move(board, from_row, from_col, to_row, to_col)
                    [] upper(piece) = "Q" ->
                          \/ is_valid_rook_move(board, from_row, from_col, to_row, to_col)
                          \/ is_valid_bishop_move(board, from_row, from_col, to_row, to_col)
                    [] upper(piece) = "K" ->
                          is_valid_king_move(from_row, from_col, to_row, to_col)

\* ModernChessClient.is_valid_move for a player whose is_white is white
is_valid_move(board, white, from_row, from_col, to_row, to_col) ==
    IF from_row < 0 \/ from_row > 7 \/ from_col < 0 \/ from_col > 7 THEN FALSE
    ELSE IF to_row < 0 \/ to_row > 7 \/ to_col < 0 \/ to_col > 7 THEN FALSE
    ELSE LET piece == board[<<from_row, from_col>>]
             target == board[<<to_row, to_col>>]
         IN  IF piece = None THEN FALSE
             ELSE IF white /\ islower(piece) THEN FALSE
             ELSE IF ~white /\ isupper(piece) THEN FALSE
             ELSE IF target # None /\ isupper(piece) /\ isupper(target) THEN FALSE
             ELSE IF target # None /\ islower(piece) /\ islower(target) THEN FALSE
             ELSE CASE upper(piece) = "P" ->
                          is_valid_pawn_move(board, piece, from_row, from_col, to_row, to_col)
                    [] upper(piece) = "R" ->
                          is_valid_rook_move(board, from_row, from_col, to_row, to_col)
                    [] upper(piece) = "N" ->
                          is_valid_knight_move(from_row, from_col, to_row, to_col)
                    [] upper(piece) = "B" ->
                          is_valid_bishop_move(board, from_row, from_col, to_row, to_col)
                    [] upper(piece) = "Q" ->
                          \/ is_valid_rook_move(board, from_row, from_col, to_row, to_col)
                          \/ is_valid_bishop_move(board, from_row, from_col, to_row, to_col)
                    [] upper(piece) = "K" ->
                          is_valid_king_move(from_row, from_col, to_row, to_col)

RECURSIVE ScanFrom(_, _, _, _, _)
\* the two loops of get_valid_moves from the n-th cell on (row n // 8,
\* column n % 8, rows first): the cells that is_valid_move accepts
ScanFrom(board, white, row, col, n) ==
    IF n >= 8 * 8 THEN << >>
    ELSE (IF is_valid_move(board, white, row, col, n \div 8, n % 8)
          THEN << <<n \div 8, n % 8>> >> ELSE << >>)
         \o ScanFrom(board, white, row, col, n + 1)

\* ModernChessClient.get_valid_moves: the list of (r, c) in scan order
get_valid_moves(board, white, row, col) == ScanFrom(board, white, row, col, 0)

(* ---------------------------------------------------------------------- *)
(* ChessGame                                                               *)
(* ---------------------------------------------------------------------- *)

\* the dict make_move appends to self.moves
MoveEntry(game, from_row, from_col, to_row, to_col) ==
    [from_row |-> from_row,
     from_col |-> from_col,
     to_row |-> to_row,
     to_col |-> to_col,
     piece |-> game.board[<<Index(from_row), Index(from_col)>>],
     captured |-> game.board[<<Index(to_row), Index(to_col)>>],
     turn |-> game.current_turn]

\* the king scan of check_game_over
KingExists(board, king) == \E sq \in Squares : board[sq] = king

\* check_game_over with the draw threshold off by one (>= instead of >)
check_game_over_at_limit(game, is_white) ==
    LET host_white == is_white[game.host] = "True"
        kings ==
            IF ~KingExists(game.board, "K")
            THEN [game EXCEPT !.is_over = TRUE,
                              !.winner = IF host_white THEN game.guest ELSE game.host,
                              !.result = "checkmate"]
            ELSE IF ~KingExists(game.board, "k")
            THEN [game EXCEPT !.is_over = TRUE,
                              !.winner = IF host_white THEN game.host ELSE game.guest,
                              !.result = "checkmate"]
            ELSE game
    IN  IF Len(kings.moves) >= MoveLimit
        THEN [kings EXCEPT !.is_over = TRUE,
                           !.winner = NoPlayer,
                           !.result = "50-move rule"]
        ELSE kings

\* check_game_over in which a missing king is decided first and the draw
\* threshold only matters while both kings stand
check_game_over_kings_first(game, is_white) ==
    LET host_white == is_white[game.host] = "True"
    IN  IF ~KingExists(game.board, "K")
        THEN [game EXCEPT !.is_over = TRUE,
                          !.winner = IF host_white THEN game.guest ELSE game.host,
                          !.result = "checkmate"]
        ELSE IF ~KingExists(game.board, "k")
        THEN [game EXCEPT !.is_over = TRUE,
                          !.winner = IF host_white THEN game.host ELSE game.guest,
                          !.result = "checkmate"]
        ELSE IF Len(game.moves) > MoveLimit
        THEN [game EXCEPT !.is_over = TRUE,
                          !.winner = NoPlayer,
                          !.result = "50-move rule"]
        ELSE game

\* ChessGame.check_game_over; is_white gives every Player's is_white
check_game_over(game, is_white) ==
    LET host_white == is_white[game.host] = "True"
        kings ==
            IF ~KingExists(game.board, "K")
            THEN [game EXCEPT !.is_over = TRUE,
                              !.winner = IF host_white THEN game.guest ELSE game.host,
                              !.result = "checkmate"]
            ELSE IF ~KingExists(game.board, "k")
            THEN [game EXCEPT !.is_over = TRUE,
                              !.winner = IF host_white THEN game.host ELSE game.guest,
                              !.result = "checkmate"]
            ELSE game
    IN  IF Len(kings.moves) > MoveLimit
        THEN [kings EXCEPT !.is_over = TRUE,
                           !.winner = NoPlayer,
                           !.result = "50-move rule"]
        ELSE kings

\* make_move that switches turns only while the game is not over
make_move_keeps_turn_when_over(game, from_row, from_col, to_row, to_col, is_white) ==
    IF ~(ValidIndex(from_row) /\ ValidIndex(from_col)
         /\ ValidIndex(to_row) /\ ValidIndex(to_col))
    THEN [game |-> game, raised |-> TRUE]
    ELSE
        LET src == <<Index(from_row), Index(from_col)>>
            dst == <<Index(to_row), Index(to_col)>>
            piece == game.board[src]
            moved ==
                [game EXCEPT
                    !.moves = Append(@, MoveEntry(game, from_row, from_col, to_row, to_col)),
                    !.board = [[@ EXCEPT ![src] = None] EXCEPT ![dst] = piece]]
        IN  IF piece = None
            THEN [game |-> moved, raised |-> TRUE]
            ELSE
                LET promoted ==
                        IF upper(piece) = "P" /\ (to_row = 0 \/ to_row = 7)
                        THEN [moved EXCEPT !.board[dst] = IF isupper(piece) THEN "Q" ELSE "q"]
                        ELSE moved
                    checked == check_game_over(promoted, is_white)
                IN  [game |-> IF checked.is_over THEN checked
                              ELSE [checked EXCEPT !.current_turn = OtherTurn(@)],
                     raised |-> FALSE]

\* ChessGame.make_move: the game it leaves behind and whether it raised.
\* It raises before touching anything when an index is not a valid list
\* index, and after the append and the board update when the source cell is
\* empty (piece.upper() on None).
make_move(game, from_row, from_col, to_row, to_col, is_white) ==
    IF ~(ValidIndex(from_row) /\ ValidIndex(from_col)
         /\ ValidIndex(to_row) /\ ValidIndex(to_col))
    THEN [game |-> game, raised |-> TRUE]
    ELSE
        LET src == <<Index(from_row), Index(from_col)>>
            dst == <<Index(to_row), Index(to_col)>>
            piece == game.board[src]
            moved ==
                [game EXCEPT
                    !.moves = Append(@, MoveEntry(game, from_row, from_col, to_row, to_col)),
                    !.board = [[@ EXCEPT ![src] = None] EXCEPT ![dst] = piece]]
        IN  IF piece = None
            THEN [game |-> moved, raised |-> TRUE]
            ELSE
                LET promoted ==
                        IF upper(piece) = "P" /\ (to_row = 0 \/ to_row = 7)
                        THEN [moved EXCEPT !.board[dst] = IF isupper(piece) THEN "Q" ELSE "q"]
                        ELSE moved
                    checked == check_game_over(promoted, is_white)
                IN  [game |-> [checked EXCEPT !.current_turn = OtherTurn(@)],
                     raised |-> FALSE]

(* ---------------------------------------------------------------------- *)
(* ChessServer state                                                       *)
(* ---------------------------------------------------------------------- *)

VARIABLES
    players,       \* keys of ChessServer.players: the connected Player ids
    accepted,      \* number of connections the accept loop has handed out
    pname,         \* Player.name of every Player object
    is_white,      \* Player.is_white of every Player object: "None", "True", "False"
    current_game,  \* Player.current_game of every Player object: a reference
                   \* to a ChessGame object (its index in heap) or NoGame
    heap,          \* the ChessGame objects in the order of their construction
    registry,      \* ChessServer.games, a dict in insertion order: the
                   \* entries [id |-> key, game |-> reference to a ChessGame]
    next_game_id,  \* ChessServer.next_game_id
    pc,            \* where the connection thread of every player stands
    received,      \* the message (or connection event) the last step handled
    sent,          \* the messages the last step wrote to connected sockets, in order
    budget,        \* state-changing operations still explored in this behaviour
    broken,        \* the connected players whose socket raises on sendall
    last_game_list,\* history: for every player whose socket is watched, the last
                   \* game_list written to it: <<games>>, or << >> before the first
    client,        \* one ModernChessClient: board, is_white, selected_square
                   \* and the valid_moves that draw_board marks
    clients,       \* the ModernChessClient of every player whose client is
                   \* watched, once every message written so far is processed
    conn           \* one receive loop: the bytes the peer sends (stream), those
                   \* not yet received (wire), buffer, the messages dispatched
                   \* so far, and whether the loop is still running (open)

vars == <<players, accepted, pname, is_white, current_game, heap, registry,
          next_game_id, pc, received, sent, budget, broken, last_game_list, client,
          clients, conn>>

\* the keys of the dict reg (game_id in self.games)
RegIds(reg) == {reg[i].id : i \in DOMAIN reg}

\* reg[id] for a key of the dict reg: a reference to a ChessGame
RegGet(reg, id) == reg[CHOOSE i \in DOMAIN reg : reg[i].id = id].game

\* reg[id] = g: dict assignment; a key that is present keeps its place and
\* loses its old value, a new key goes last
RegSet(reg, id, g) ==
    IF id \in RegIds(reg)
    THEN [i \in DOMAIN reg |-> IF reg[i].id = id THEN [id |-> id, game |-> g] ELSE reg[i]]
    ELSE Append(reg, [id |-> id, game |-> g])

\* del reg[id]
RegDel(reg, id) == SelectSeq(reg, LAMBDA e : e.id # id)

\* the dict reg with every reference replaced by the object it refers to
View(reg, hp) == [id \in RegIds(reg) |-> hp[RegGet(reg, id)]]

\* ChessServer.games: game id -> ChessGame
games == View(registry, heap)

\* the registered game ids: keys of ChessServer.games
GameIds == DOMAIN games

\* the ids a message may name (one beyond those that can be allocated stays unknown)
GameIdInputs == 1..MaxGames

\* the 'name' a join_game message may carry: absent, or a name of its own
NameInputs == {None, "Anna"}

\* name = data.get('name'); if name: player.name = name
Rename(names, p, name) == IF name # None THEN [names EXCEPT ![p] = name] ELSE names

\* a connection thread blocked in recv, between two messages
Idle == [at |-> "recv"]

\* a move message without a usable 'move' field (data.get('move') is falsy)
EmptyMove == [empty |-> TRUE]

Coords(from_row, from_col, to_row, to_col) ==
    [from_row |-> from_row, from_col |-> from_col, to_row |-> to_row, to_col |-> to_col]

\* the 'move' payloads explored
MoveInputs ==
    {Coords(6, 4, 4, 4),     \* white pawn two squares from its starting rank
     Coords(1, 4, 4, 4),     \* black pawn three squares forward
     Coords(7, 3, 0, 4),     \* white queen straight onto the black king
     Coords(4, 4, 3, 4),     \* a source square that is empty in the initial position
     Coords(8, 0, 0, 0),     \* a row that is no list index
     EmptyMove}

\* Player.send_message: sendall raises on a socket that disconnect_player has
\* closed and on a broken one; the exception is printed, False is returned
\* and no caller looks at the result, so only the other players are written to
Send(to, msg) == IF to \in players \ broken THEN <<[to |-> to] @@ msg>> ELSE << >>

\* the history of behaviours in which no socket is watched
Unwatched == [p \in {} |-> << >>]

\* the last game_list every watched socket has been written, after the
\* messages msgs were written in their order
Delivered(lists, msgs) ==
    [p \in DOMAIN lists |->
        LET written == {i \in 1..Len(msgs) : msgs[i].to = p /\ msgs[i].type = "game_list"}
        IN  IF written = {} THEN lists[p]
            ELSE <<msgs[CHOOSE i \in written : \A j \in written : j <= i].games>>]

\* ModernChessClient.__init__: the fields the rules engine reads, and no
\* square selected (selected_square is << >> for None, else <<row, col>>)
NewClient ==
    [board |-> create_initial_board, is_white |-> TRUE, selected_square |-> << >>,
     valid_moves |-> << >>]

(* ---------------------------------------------------------------------- *)
(* The receive loop of a connection (ChessServer.handle_player and         *)
(* ModernChessClient.listen_for_server run the same loop)                  *)
(* ---------------------------------------------------------------------- *)

\* the bytes a peer may put on the wire: "a" an ASCII byte other than the
\* newline, "n" the newline, "L" the first byte of a two-byte UTF-8
\* character and "C" its continuation byte
Bytes == {"a", "n", "L", "C"}

\* the longest byte stream explored
MaxStream == 4

RECURSIVE decode(_)
\* bytes.decode('utf-8'): the text of the chunk (the two-byte character is
\* the text element "LC"), or UnicodeDecodeError when the chunk starts with
\* a continuation byte or ends inside a character
decode(bytes) ==
    IF bytes = << >> THEN [raised |-> FALSE, text |-> << >>]
    ELSE IF Head(bytes) \in {"a", "n"}
    THEN LET rest == decode(Tail(bytes))
         IN  [raised |-> rest.raised, text |-> <<Head(bytes)>> \o rest.text]
    ELSE IF Head(bytes) = "L" /\ Len(bytes) >= 2 /\ bytes[2] = "C"
    THEN LET rest == decode(SubSeq(bytes, 3, Len(bytes)))
         IN  [raised |-> rest.raised, text |-> <<"LC">> \o rest.text]
    ELSE [raised |-> TRUE, text |-> << >>]

RECURSIVE split_lines(_, _)
\* while '\n' in buffer: message, buffer = buffer.split('\n', 1), and the
\* message is handed to process_player_message / process_server_message
split_lines(buffer, dispatched) ==
    IF \E i \in DOMAIN buffer : buffer[i] = "n"
    THEN LET i == CHOOSE k \in DOMAIN buffer :
                      buffer[k] = "n" /\ \A j \in 1..(k - 1) : buffer[j] # "n"
         IN  split_lines(SubSeq(buffer, i + 1, Len(buffer)),
                         Append(dispatched, SubSeq(buffer, 1, i - 1)))
    ELSE [buffer |-> buffer, dispatched |-> dispatched]

\* a connection whose peer sends nothing: buffer = "" and the loop running
NoStream ==
    [stream |-> << >>, wire |-> << >>, buffer |-> << >>, dispatched |-> << >>,
     open |-> TRUE]

(* ---------------------------------------------------------------------- *)
(* The clients of the players: ModernChessClient, the fields that           *)
(* handle_mousedown and make_move read and write                            *)
(* ---------------------------------------------------------------------- *)

\* ModernChessClient.__init__
NewPlayerClient ==
    [board |-> create_initial_board, is_white |-> TRUE, players_turn |-> TRUE,
     available_games |-> << >>, game_id |-> NoGame, is_game_over |-> FALSE,
     in_lobby |-> TRUE, in_game |-> FALSE]

\* ModernChessClient.make_move on the client c.  It raises like the list
\* accesses of the server's make_move do; its own move (not is_opponent) is
\* sent to the server and ends the player's turn.
client_make_move(c, from_row, from_col, to_row, to_col, is_opponent) ==
    IF ~(ValidIndex(from_row) /\ ValidIndex(from_col)
         /\ ValidIndex(to_row) /\ ValidIndex(to_col))
    THEN [client |-> c, raised |-> TRUE]
    ELSE
        LET src == <<Index(from_row), Index(from_col)>>
            dst == <<Index(to_row), Index(to_col)>>
            piece == c.board[src]
            moved == [c EXCEPT !.board = [[@ EXCEPT ![src] = None] EXCEPT ![dst] = piece]]
        IN  IF piece = None
            THEN [client |-> moved, raised |-> TRUE]
            ELSE
                LET promoted ==
                        IF upper(piece) = "P" /\ (to_row = 0 \/ to_row = 7)
                        THEN [moved EXCEPT !.board[dst] = IF isupper(piece) THEN "Q" ELSE "q"]
                        ELSE moved
                IN  [client |-> IF is_opponent THEN promoted
                                ELSE [promoted EXCEPT !.players_turn = FALSE],
                     raised |-> FALSE]

\* ModernChessClient.process_server_message on the client c; an exception
\* of make_move is caught and leaves what make_move had done before it
process_server_message(c, msg) ==
    CASE msg.type = "game_list" -> [c EXCEPT !.available_games = msg.games]
      [] msg.type = "game_created" ->
            [c EXCEPT !.game_id = msg.game_id, !.is_white = (msg.is_white = "True"),
                      !.in_lobby = FALSE, !.in_game = TRUE]
      [] msg.type = "game_joined" ->
            [c EXCEPT !.game_id = msg.game_id, !.is_white = (msg.is_white = "True"),
                      !.in_lobby = FALSE, !.in_game = TRUE,
                      !.players_turn = (msg.is_white = "True")]
      [] msg.type = "opponent_joined" -> [c EXCEPT !.players_turn = c.is_white]
      [] msg.type = "move" ->
            LET r == client_make_move(c, msg.move.from_row, msg.move.from_col,
                                      msg.move.to_row, msg.move.to_col, TRUE)
            IN  IF r.raised THEN r.client
                ELSE [r.client EXCEPT !.players_turn = TRUE]
      [] msg.type = "game_over" -> [c EXCEPT !.is_game_over = TRUE]
      [] OTHER -> c

RECURSIVE Processed(_, _)
\* the watched clients after their listen_for_server threads have processed
\* the messages msgs in the order they were written
Processed(cs, msgs) ==
    IF msgs = << >> THEN cs
    ELSE LET msg == Head(msgs)
         IN  Processed(IF msg.to \in DOMAIN cs
                       THEN [cs EXCEPT ![msg.to] = process_server_message(@, msg)]
                       ELSE cs,
                       Tail(msgs))

\* the watched clients once the message msg has left one of them: a 'move'
\* is sent from make_move, after the client has moved the piece on its board
Submitted(cs, msg) ==
    IF msg.type = "move" /\ msg.player \in DOMAIN cs /\ msg.move # EmptyMove
    THEN [cs EXCEPT ![msg.player] =
              client_make_move(@, msg.move.from_row, msg.move.from_col,
                               msg.move.to_row, msg.move.to_col, FALSE).client]
    ELSE cs

ErrorMsg(message) == [type |-> "error", message |-> message]

GameOverMsg(winner, result) ==
    [type |-> "game_over", winner |-> NameOf(pname, winner), result |-> result]

\* a turn check that only asks whether the player has a colour
is_player_turn_any_colour(p, game) == is_white[p] # None

\* the turn check of the move branch: player.is_white == (current_turn == 'white')
is_player_turn(p, game) ==
    IF game.current_turn = "white" THEN is_white[p] = "True" ELSE is_white[p] = "False"

\* a fullness check that lets every joiner in
game_is_full_never(game) == FALSE

\* the fullness check of the join_game branch: game.guest is not None
game_is_full(game) == game.guest # NoPlayer

\* the filter of send_game_list: game.guest is None and not game.is_over
is_available(game) == game.guest = NoPlayer /\ ~game.is_over

RECURSIVE AvailableFrom(_, _, _, _)
\* the loop of send_game_list over self.games.items(), from entry i on
AvailableFrom(reg, hp, names, i) ==
    IF i > Len(reg) THEN << >>
    ELSE (IF is_available(hp[reg[i].game])
          THEN <<[id |-> reg[i].id, host |-> names[hp[reg[i].game].host]]>>
          ELSE << >>) \o AvailableFrom(reg, hp, names, i + 1)

\* ChessServer.send_game_list for the dict reg of the objects hp and the
\* player names
send_game_list(p, reg, hp, names) ==
    Send(p, [type |-> "game_list", games |-> AvailableFrom(reg, hp, names, 1)])

RECURSIVE BroadcastFrom(_, _, _, _, _)
BroadcastFrom(p, reg, hp, names, cur) ==
    IF p > accepted THEN << >>
    ELSE (IF p \in players /\ cur[p] = NoGame
          THEN send_game_list(p, reg, hp, names) ELSE << >>)
         \o BroadcastFrom(p + 1, reg, hp, names, cur)

\* a broadcast that does not look at current_game
broadcast_game_list_to_all(reg, hp, names, cur) ==
    BroadcastFrom(1, reg, hp, names, [p \in PlayerIds |-> NoGame])

\* ChessServer.broadcast_game_list over self.players (insertion order = accept
\* order) for the dict reg and the players' current_game cur
broadcast_game_list(reg, hp, names, cur) == BroadcastFrom(1, reg, hp, names, cur)

(* ---------------------------------------------------------------------- *)
(* ChessServer operations, each message handled in one step                *)
(* ---------------------------------------------------------------------- *)

\* ChessServer.__init__ (no Player object exists yet; the fields of the
\* Player objects to come hold what Player.__init__ will give them)
Init ==
    /\ players = {}
    /\ accepted = 0
    /\ pname = [p \in PlayerIds |-> DefaultName(p)]
    /\ is_white = [p \in PlayerIds |-> None]
    /\ current_game = [p \in PlayerIds |-> NoGame]
    /\ heap = << >>
    /\ registry = << >>
    /\ next_game_id = 1
    /\ pc = [p \in PlayerIds |-> Idle]
    /\ received = [type |-> "init"]
    /\ sent = << >>
    /\ budget = LobbySteps
    /\ broken = {}
    /\ last_game_list = Unwatched
    /\ client = NewClient
    /\ clients = Unwatched
    /\ conn = NoStream

\* ChessServer.start, one turn of the accept loop: a new Player is registered
Accept ==
    /\ accepted < MaxPlayers
    /\ accepted' = accepted + 1
    /\ players' = players \cup {accepted + 1}
    /\ received' = [type |-> "accept", player |-> accepted + 1]
    /\ sent' = << >>
    /\ budget > 0
    /\ budget' = budget - 1
    /\ UNCHANGED <<pname, is_white, current_game, heap, registry, next_game_id, pc>>
    /\ last_game_list' = Delivered(last_game_list, sent')
    /\ clients' = Processed(Submitted(clients, received'), sent')
    /\ UNCHANGED <<broken, client, conn>>

\* process_player_message, 'join_lobby' and 'get_games' (no name given)
GetGames(p) ==
    /\ p \in players
    /\ pc[p] = Idle
    /\ received' = [type |-> "get_games", player |-> p]
    /\ sent' = send_game_list(p, registry, heap, pname)
    /\ UNCHANGED <<players, accepted, pname, is_white, current_game, heap, registry,
                   next_game_id, pc, budget>>
    /\ last_game_list' = Delivered(last_game_list, sent')
    /\ clients' = Processed(Submitted(clients, received'), sent')
    /\ UNCHANGED <<broken, client, conn>>

\* process_player_message, a line that json.loads rejects ("malformed") or a
\* message whose 'type' no branch handles ("unknown"): the first is printed
\* by the JSONDecodeError handler, the second falls through every elif
Unhandled(p, kind) ==
    /\ p \in players
    /\ pc[p] = Idle
    /\ received' = [type |-> kind, player |-> p]
    /\ sent' = << >>
    /\ UNCHANGED <<players, accepted, pname, is_white, current_game, heap, registry,
                   next_game_id, pc, budget>>
    /\ last_game_list' = Delivered(last_game_list, sent')
    /\ clients' = Processed(Submitted(clients, received'), sent')
    /\ UNCHANGED <<broken, client, conn>>

\* process_player_message, 'create_game' (no name given); white is the
\* outcome of random.choice([True, False])
CreateGame(p, white) ==
    /\ p \in players
    /\ pc[p] = Idle
    /\ next_game_id <= MaxGames
    /\ LET game_id == next_game_id
           g == Len(heap) + 1
           hp == Append(heap, NewGame(game_id, p))
           reg == RegSet(registry, game_id, g)
           cur == [current_game EXCEPT ![p] = g]
       IN  /\ next_game_id' = next_game_id + 1
           /\ is_white' = [is_white EXCEPT ![p] = white]
           /\ heap' = hp
           /\ registry' = reg
           /\ current_game' = cur
           /\ received' = [type |-> "create_game", player |-> p]
           /\ sent' = Send(p, [type |-> "game_created", game_id |-> game_id,
                               is_white |-> white])
                      \o broadcast_game_list(reg, hp, pname, cur)
    /\ budget > 0
    /\ budget' = budget - 1
    /\ UNCHANGED <<players, accepted, pname, pc>>
    /\ last_game_list' = Delivered(last_game_list, sent')
    /\ clients' = Processed(Submitted(clients, received'), sent')
    /\ UNCHANGED <<broken, client, conn>>

\* process_player_message, 'join_game'
JoinGame(p, game_id, name) ==
    /\ p \in players
    /\ pc[p] = Idle
    /\ received' = [type |-> "join_game", player |-> p, game_id |-> game_id,
                    name |-> name]
    /\ LET names == Rename(pname, p, name)
           refused(message) ==
               /\ sent' = Send(p, ErrorMsg(message))
               /\ IF names = pname THEN UNCHANGED budget
                  ELSE budget > 0 /\ budget' = budget - 1
               /\ UNCHANGED <<is_white, current_game, heap, registry>>
       IN  /\ pname' = names
           /\ IF game_id \in RegIds(registry)
              THEN LET g == RegGet(registry, game_id)
                       game == heap[g]
                   IN  IF game_is_full(game)
                       THEN refused("Game is already full")
                       ELSE LET hp == [heap EXCEPT ![g].guest = p]
                                cur == [current_game EXCEPT ![p] = g]
                                \* player.is_white = not game.host.is_white
                                white == IF is_white[game.host] = "True"
                                         THEN "False" ELSE "True"
                            IN  /\ heap' = hp
                                /\ budget > 0
                                /\ budget' = budget - 1
                                /\ current_game' = cur
                                /\ is_white' = [is_white EXCEPT ![p] = white]
                                /\ sent' = Send(p, [type |-> "game_joined",
                                                    game_id |-> game_id,
                                                    is_white |-> white,
                                                    opponent |-> names[game.host]])
                                           \o Send(game.host, [type |-> "opponent_joined",
                                                               opponent |-> names[p]])
                                           \o broadcast_game_list(registry, hp, names, cur)
                                /\ UNCHANGED registry
              ELSE refused("Game not found")
    /\ UNCHANGED <<players, accepted, next_game_id, pc>>
    /\ last_game_list' = Delivered(last_game_list, sent')
    /\ clients' = Processed(Submitted(clients, received'), sent')
    /\ UNCHANGED <<broken, client, conn>>

\* the messages of the move branch after make_move returned normally:
\* the move to the opponent, then game_over to host and guest; a missing
\* opponent or guest (None.send_message) raises into the handler's except
MoveNotifications(p, game, move) ==
    LET opponent == IF p = game.host THEN game.guest ELSE game.host
        invalid == Send(p, ErrorMsg("Invalid move"))
    IN  IF opponent = NoPlayer THEN invalid
        ELSE Send(opponent, [type |-> "move", move |-> move])
             \o (IF ~game.is_over THEN << >>
                 ELSE Send(game.host, GameOverMsg(game.winner, game.result))
                      \o (IF game.guest = NoPlayer THEN invalid
                          ELSE Send(game.guest, GameOverMsg(game.winner, game.result))))

\* process_player_message, 'move'
Move(p, game_id, move) ==
    /\ p \in players
    /\ pc[p] = Idle
    /\ received' = [type |-> "move", player |-> p, game_id |-> game_id, move |-> move]
    /\ IF game_id \in RegIds(registry) /\ move # EmptyMove
       THEN LET g == RegGet(registry, game_id)
                game == heap[g]
            IN  IF ~is_player_turn(p, game)
                THEN /\ sent' = Send(p, ErrorMsg("Not your turn"))
                     /\ UNCHANGED <<heap, budget>>
                ELSE LET r == make_move(game, move.from_row, move.from_col,
                                        move.to_row, move.to_col, is_white)
                         appended == Len(r.game.moves) - Len(game.moves)
                     IN  /\ budget >= appended
                         /\ budget' = budget - appended
                         /\ heap' = [heap EXCEPT ![g] = r.game]
                         /\ sent' = IF r.raised
                                    THEN Send(p, ErrorMsg("Invalid move"))
                                    ELSE MoveNotifications(p, r.game, move)
       ELSE /\ sent' = Send(p, ErrorMsg("Game not found or invalid move data"))
            /\ UNCHANGED <<heap, budget>>
    /\ UNCHANGED <<players, accepted, pname, is_white, current_game, registry,
                   next_game_id, pc>>
    /\ last_game_list' = Delivered(last_game_list, sent')
    /\ clients' = Processed(Submitted(clients, received'), sent')
    /\ UNCHANGED <<broken, client, conn>>

\* disconnect_player, the part that handles the game of the departing
\* player p: who is told game_over (NoPlayer: nobody)
LeftBehind(p, game) ==
    IF game.host = p /\ game.guest # NoPlayer THEN game.guest
    ELSE IF game.guest = p THEN game.host
    ELSE NoPlayer

\* ChessServer.disconnect_player (reached from handle_player when the
\* player's receive loop ends)
Disconnect(p) ==
    /\ p \in players
    /\ pc[p] = Idle
    /\ received' = [type |-> "disconnect", player |-> p]
    /\ players' = players \ {p}
    /\ budget > 0
    /\ budget' = budget - 1
    /\ IF current_game[p] # NoGame
       THEN LET game == heap[current_game[p]]
                other == LeftBehind(p, game)
                cur == IF other # NoPlayer
                       THEN [current_game EXCEPT ![other] = NoGame]
                       ELSE current_game
                \* if game.id in self.games: del self.games[game.id]
                reg == RegDel(registry, game.id)
            IN  /\ current_game' = cur
                /\ registry' = reg
                \* the socket of p is still open and p is still in self.players
                \* while the notifications and the lobby broadcast are written
                /\ sent' = (IF other # NoPlayer
                            THEN Send(other, GameOverMsg(other, "opponent_disconnected"))
                            ELSE << >>)
                           \o broadcast_game_list(reg, heap, pname, cur)
       ELSE /\ sent' = << >>
            /\ UNCHANGED <<current_game, registry>>
    /\ UNCHANGED <<accepted, pname, is_white, heap, next_game_id, pc>>
    /\ broken' = broken \ {p}
    /\ last_game_list' = Delivered(last_game_list, sent')
    /\ clients' = Processed(Submitted(clients, received'), sent')
    /\ UNCHANGED <<client, conn>>

Next ==
    \/ Accept
    \/ \E p \in PlayerIds : GetGames(p)
    \/ \E p \in PlayerIds, kind \in {"malformed", "unknown"} : Unhandled(p, kind)
    \/ \E p \in PlayerIds, white \in {"True", "False"} : CreateGame(p, white)
    \/ \E p \in PlayerIds, game_id \in GameIdInputs, name \in NameInputs :
            JoinGame(p, game_id, name)
    \/ \E p \in PlayerIds, game_id \in GameIdInputs, move \in MoveInputs :
            Move(p, game_id, move)
    \/ \E p \in PlayerIds : Disconnect(p)

Spec == Init /\ [][Next]_vars

(* ---------------------------------------------------------------------- *)
(* Specifications that start from a game in progress                       *)
(* ---------------------------------------------------------------------- *)

\* the colours of host 1 and guest 2 when the host drew the colour white
StartColours(white) ==
    [p \in PlayerIds |->
        CASE p = 1 -> white
          [] p = 2 -> IF white = "True" THEN "False" ELSE "True"
          [] OTHER -> None]

\* The registry after Accept, Accept, CreateGame(1, white), JoinGame(2, 1, None):
\* player 1 hosts game 1 with the colour white, player 2 is its guest.
StartedGame(white, game, steps) ==
    /\ players = {1, 2}
    /\ accepted = 2
    /\ pname = [p \in PlayerIds |-> DefaultName(p)]
    /\ is_white = StartColours(white)
    /\ current_game = [p \in PlayerIds |-> IF p \in {1, 2} THEN 1 ELSE NoGame]
    /\ heap = <<game>>
    /\ registry = <<[id |-> 1, game |-> 1]>>
    /\ next_game_id = 2
    /\ pc = [p \in PlayerIds |-> Idle]
    /\ budget = steps
    /\ broken = {}
    /\ last_game_list = Unwatched
    /\ client = NewClient
    /\ clients = Unwatched
    /\ conn = NoStream

\* what JoinGame(2, 1, None) left in received and sent
JustJoined(white) ==
    /\ received = [type |-> "join_game", player |-> 2, game_id |-> 1, name |-> None]
    /\ sent = <<[to |-> 2, type |-> "game_joined", game_id |-> 1,
                 is_white |-> IF white = "True" THEN "False" ELSE "True",
                 opponent |-> DefaultName(1)],
                [to |-> 1, type |-> "opponent_joined", opponent |-> DefaultName(2)]>>

\* a game that host 1 created and guest 2 joined, no move made yet
InitGame ==
    \E white \in {"True", "False"} :
        /\ StartedGame(white, [NewGame(1, 1) EXCEPT !.guest = 2], MaxSteps)
        /\ JustJoined(white)

SpecGame == InitGame /\ [][Next]_vars

\* The connection of player p breaks (the peer is gone or has reset it):
\* from now on sendall on its socket raises.  The lines the peer sent before
\* are still read, and recv has not failed yet.
Break(p) ==
    /\ p \in players \ broken
    /\ broken' = broken \cup {p}
    /\ received' = [type |-> "break", player |-> p]
    /\ sent' = << >>
    /\ UNCHANGED <<players, accepted, pname, is_white, current_game, heap, registry,
                   next_game_id, pc, budget, last_game_list, client, clients, conn>>

NextWrites ==
    \/ Next
    \/ \E p \in PlayerIds : Break(p)

\* the game in progress, with connections that can break
SpecWrites == InitGame /\ [][NextWrites]_vars

\* the n-th move (n = 1, 2, ...) of a game in which both sides move their
\* king's knight out and back: Ng1-f3, Ng8-f6, Nf3-g1, Nf6-g8, ...
ShuffleMove(n) ==
    CASE n % 4 = 1 -> Coords(7, 6, 5, 5)
      [] n % 4 = 2 -> Coords(0, 6, 2, 5)
      [] n % 4 = 3 -> Coords(5, 5, 7, 6)
      [] OTHER -> Coords(2, 5, 0, 6)

\* the board after the first n knight moves
ShuffleBoard(n) ==
    [sq \in Squares |->
        CASE sq = <<7, 6>> -> IF n % 4 \in {1, 2} THEN None ELSE "N"
          [] sq = <<5, 5>> -> IF n % 4 \in {1, 2} THEN "N" ELSE None
          [] sq = <<0, 6>> -> IF n % 4 \in {2, 3} THEN None ELSE "n"
          [] sq = <<2, 5>> -> IF n % 4 \in {2, 3} THEN "n" ELSE None
          [] OTHER -> create_initial_board[sq]]

\* the game of host 1 and guest 2 after its first n knight moves (n <= MoveLimit)
ShuffleGame(n) ==
    [NewGame(1, 1) EXCEPT
        !.guest = 2,
        !.board = ShuffleBoard(n),
        !.current_turn = IF n % 2 = 0 THEN "white" ELSE "black",
        !.moves = [i \in 1..n |->
                      [from_row |-> ShuffleMove(i).from_row,
                       from_col |-> ShuffleMove(i).from_col,
                       to_row |-> ShuffleMove(i).to_row,
                       to_col |-> ShuffleMove(i).to_col,
                       piece |-> IF i % 2 = 1 THEN "N" ELSE "n",
                       captured |-> None,
                       turn |-> IF i % 2 = 1 THEN "white" ELSE "black"]]]

\* ShuffleGame is what make_move produces, one knight move after the other
ShuffleGameIsPlayed ==
    \A n \in 0..(ShuffleLen - 1), white \in {"True", "False"} :
        LET m == ShuffleMove(n + 1)
        IN  make_move(ShuffleGame(n), m.from_row, m.from_col, m.to_row, m.to_col,
                      StartColours(white))
            = [game |-> ShuffleGame(n + 1), raised |-> FALSE]

\* number of state-changing operations explored in one behaviour of the long
\* game: the log appends that take it past the draw threshold
LongSteps == MoveLimit + 1 - ShuffleLen

\* the same registry with ShuffleLen moves already played in game 1, the
\* last of them just processed
InitLong ==
    \E white \in {"True", "False"} :
        LET mover == IF (ShuffleLen % 2 = 1) = (white = "True") THEN 1 ELSE 2
        IN  /\ StartedGame(white, ShuffleGame(ShuffleLen), LongSteps)
            /\ received = [type |-> "move", player |-> mover, game_id |-> 1,
                           move |-> ShuffleMove(ShuffleLen)]
            /\ sent = <<[to |-> 3 - mover, type |-> "move",
                         move |-> ShuffleMove(ShuffleLen)]>>

SpecLong == InitLong /\ [][Next]_vars

\* 'move' payloads that take a pawn to the first or the last row of the
\* board: by the row's number, and by the negative index Python lists
\* accept for the same row (board[-8] is board[0], board[-1] is board[7])
PawnMoveInputs ==
    {Coords(6, 1, 0, 1),     \* white pawn to row 0
     Coords(1, 1, 7, 1),     \* black pawn to row 7
     Coords(6, 0, -8, 0),    \* white pawn to row 0, named -8
     Coords(1, 0, -1, 0),    \* black pawn to row 7, named -1
     Coords(6, 4, 4, 4),     \* white pawn two squares ahead
     Coords(1, 4, 3, 4)}     \* black pawn two squares ahead

NextPawns ==
    \E p \in PlayerIds, game_id \in GameIdInputs, move \in PawnMoveInputs :
        Move(p, game_id, move)

\* the game in progress, the players sending pawn moves
SpecPawns == InitGame /\ [][NextPawns]_vars

(* ---------------------------------------------------------------------- *)
(* The lobby handlers, one connection thread per player                    *)
(*                                                                         *)
(* ChessServer takes no lock: the accept loop and the handle_player        *)
(* threads run process_player_message and disconnect_player on the shared  *)
(* dicts side by side.  The steps below cut the handlers where another     *)
(* thread can run in between; pc[p] holds the handler's local variables.   *)
(* ---------------------------------------------------------------------- *)

\* what a step that continues a handler leaves in received
Resumed(p) == [type |-> "resume", player |-> p, at |-> pc[p].at]

\* broadcast_game_list, the call: iter(self.players.items()) remembers the
\* size of the dict; then is where the caller goes on afterwards
StartBroadcast(then) ==
    [at |-> "broadcast", used |-> Cardinality(players), last |-> 0, then |-> then]

\* where a thread stands after its broadcast_game_list raised RuntimeError:
\* process_player_message catches it and the thread returns to recv;
\* disconnect_player is called outside every try, so the thread ends
AfterRuntimeError(then) == IF then = "close" THEN [at |-> "ended"] ELSE Idle

\* where a thread stands after its broadcast_game_list returned
AfterBroadcast(then) == IF then = "close" THEN [at |-> "close"] ELSE Idle

\* 'join_game' up to the fullness check: name, lookup, 'Game is already
\* full', 'Game not found'
JoinLookup(p, game_id, name) ==
    /\ p \in players
    /\ pc[p] = Idle
    /\ received' = [type |-> "join_game", player |-> p, game_id |-> game_id,
                    name |-> name]
    /\ pname' = Rename(pname, p, name)
    /\ budget > 0
    /\ budget' = budget - 1
    /\ IF game_id \in RegIds(registry)
       THEN LET g == RegGet(registry, game_id)
            IN  IF game_is_full(heap[g])
                THEN /\ sent' = Send(p, ErrorMsg("Game is already full"))
                     /\ UNCHANGED pc
                ELSE /\ sent' = << >>
                     /\ pc' = [pc EXCEPT ![p] = [at |-> "join", game |-> g,
                                                 game_id |-> game_id]]
       ELSE /\ sent' = Send(p, ErrorMsg("Game not found"))
            /\ UNCHANGED pc
    /\ UNCHANGED <<players, accepted, is_white, current_game, heap, registry,
                   next_game_id>>
    /\ last_game_list' = Delivered(last_game_list, sent')
    /\ clients' = Processed(Submitted(clients, received'), sent')
    /\ UNCHANGED <<broken, client, conn>>

\* 'join_game' after the check passed: guest, current_game, colour, and the
\* notifications to the joiner and the host
JoinEnter(p) ==
    /\ pc[p].at = "join"
    /\ LET g == pc[p].game
           game == heap[g]
           white == IF is_white[game.host] = "True" THEN "False" ELSE "True"
       IN  /\ heap' = [heap EXCEPT ![g].guest = p]
           /\ current_game' = [current_game EXCEPT ![p] = g]
           /\ is_white' = [is_white EXCEPT ![p] = white]
           /\ sent' = Send(p, [type |-> "game_joined", game_id |-> pc[p].game_id,
                               is_white |-> white, opponent |-> pname[game.host]])
                      \o Send(game.host, [type |-> "opponent_joined",
                                          opponent |-> pname[p]])
    /\ received' = Resumed(p)
    /\ pc' = [pc EXCEPT ![p] = StartBroadcast("recv")]
    /\ UNCHANGED <<players, accepted, pname, registry, next_game_id, budget>>
    /\ last_game_list' = Delivered(last_game_list, sent')
    /\ clients' = Processed(Submitted(clients, received'), sent')
    /\ UNCHANGED <<broken, client, conn>>

\* 'create_game' (no name given): game_id = self.next_game_id
CreateRead(p) ==
    /\ p \in players
    /\ pc[p] = Idle
    /\ next_game_id <= MaxGames
    /\ received' = [type |-> "create_game", player |-> p]
    /\ sent' = << >>
    /\ pc' = [pc EXCEPT ![p] = [at |-> "create", game_id |-> next_game_id]]
    /\ budget > 0
    /\ budget' = budget - 1
    /\ UNCHANGED <<players, accepted, pname, is_white, current_game, heap, registry,
                   next_game_id>>
    /\ last_game_list' = Delivered(last_game_list, sent')
    /\ clients' = Processed(Submitted(clients, received'), sent')
    /\ UNCHANGED <<broken, client, conn>>

\* self.next_game_id += 1, the read of the attribute
CreateLoad(p) ==
    /\ pc[p].at = "create"
    /\ received' = Resumed(p)
    /\ sent' = << >>
    /\ pc' = [pc EXCEPT ![p] = [at |-> "add", game_id |-> pc[p].game_id,
                                loaded |-> next_game_id]]
    /\ UNCHANGED <<players, accepted, pname, is_white, current_game, heap, registry,
                   next_game_id, budget>>
    /\ last_game_list' = Delivered(last_game_list, sent')
    /\ clients' = Processed(Submitted(clients, received'), sent')
    /\ UNCHANGED <<broken, client, conn>>

\* self.next_game_id += 1, the write of the sum
CreateStore(p) ==
    /\ pc[p].at = "add"
    /\ received' = Resumed(p)
    /\ sent' = << >>
    /\ next_game_id' = pc[p].loaded + 1
    /\ pc' = [pc EXCEPT ![p] = [at |-> "register", game_id |-> pc[p].game_id]]
    /\ UNCHANGED <<players, accepted, pname, is_white, current_game, heap, registry,
                   budget>>
    /\ last_game_list' = Delivered(last_game_list, sent')
    /\ clients' = Processed(Submitted(clients, received'), sent')
    /\ UNCHANGED <<broken, client, conn>>

\* 'create_game' from random.choice to the game_created reply
CreateRegister(p, white) ==
    /\ pc[p].at = "register"
    /\ LET game_id == pc[p].game_id
           g == Len(heap) + 1
       IN  /\ is_white' = [is_white EXCEPT ![p] = white]
           /\ heap' = Append(heap, NewGame(game_id, p))
           /\ registry' = RegSet(registry, game_id, g)
           /\ current_game' = [current_game EXCEPT ![p] = g]
           /\ sent' = Send(p, [type |-> "game_created", game_id |-> game_id,
                               is_white |-> white])
    /\ received' = Resumed(p)
    /\ pc' = [pc EXCEPT ![p] = StartBroadcast("recv")]
    /\ UNCHANGED <<players, accepted, pname, next_game_id, budget>>
    /\ last_game_list' = Delivered(last_game_list, sent')
    /\ clients' = Processed(Submitted(clients, received'), sent')
    /\ UNCHANGED <<broken, client, conn>>

\* broadcast_game_list, one turn of the loop: next() on the dict iterator
\* raises RuntimeError when the dict has another size than at the start of
\* the loop; else the next key in insertion order gets the list if it is in
\* the lobby, or the loop ends
BroadcastStep(p) ==
    /\ pc[p].at = "broadcast"
    /\ received' = Resumed(p)
    /\ LET rest == {q \in players : q > pc[p].last}
       IN  IF Cardinality(players) # pc[p].used
           THEN /\ sent' = << >>
                /\ pc' = [pc EXCEPT ![p] = AfterRuntimeError(pc[p].then)]
           ELSE IF rest = {}
           THEN /\ sent' = << >>
                /\ pc' = [pc EXCEPT ![p] = AfterBroadcast(pc[p].then)]
           ELSE LET q == CHOOSE q \in rest : \A o \in rest : q <= o
                IN  /\ sent' = IF current_game[q] = NoGame
                               THEN send_game_list(q, registry, heap, pname)
                               ELSE << >>
                    /\ pc' = [pc EXCEPT ![p].last = q]
    /\ UNCHANGED <<players, accepted, pname, is_white, current_game, heap, registry,
                   next_game_id, budget>>
    /\ last_game_list' = Delivered(last_game_list, sent')
    /\ clients' = Processed(Submitted(clients, received'), sent')
    /\ UNCHANGED <<broken, client, conn>>

\* disconnect_player from its first line to the removal of the game
DisconnectBegin(p) ==
    /\ p \in players
    /\ pc[p] = Idle
    /\ received' = [type |-> "disconnect", player |-> p]
    /\ budget > 0
    /\ budget' = budget - 1
    /\ IF current_game[p] # NoGame
       THEN LET game == heap[current_game[p]]
                other == LeftBehind(p, game)
            IN  /\ current_game' = IF other # NoPlayer
                                   THEN [current_game EXCEPT ![other] = NoGame]
                                   ELSE current_game
                /\ registry' = RegDel(registry, game.id)
                /\ sent' = IF other # NoPlayer
                           THEN Send(other, GameOverMsg(other, "opponent_disconnected"))
                           ELSE << >>
                /\ pc' = [pc EXCEPT ![p] = StartBroadcast("close")]
       ELSE /\ sent' = << >>
            /\ pc' = [pc EXCEPT ![p] = [at |-> "close"]]
            /\ UNCHANGED <<current_game, registry>>
    /\ UNCHANGED <<players, accepted, pname, is_white, heap, next_game_id>>
    /\ last_game_list' = Delivered(last_game_list, sent')
    /\ clients' = Processed(Submitted(clients, received'), sent')
    /\ UNCHANGED <<broken, client, conn>>

\* disconnect_player, its end: socket.close() and del self.players[player_id];
\* handle_player returns and the thread ends
DisconnectClose(p) ==
    /\ pc[p].at = "close"
    /\ received' = Resumed(p)
    /\ sent' = << >>
    /\ players' = players \ {p}
    /\ pc' = [pc EXCEPT ![p] = [at |-> "ended"]]
    /\ UNCHANGED <<accepted, pname, is_white, current_game, heap, registry,
                   next_game_id, budget>>
    /\ broken' = broken \ {p}
    /\ last_game_list' = Delivered(last_game_list, sent')
    /\ clients' = Processed(Submitted(clients, received'), sent')
    /\ UNCHANGED <<client, conn>>

\* the move payloads the connection threads are sent: a white and a black
\* pawn move
ThreadMoveInputs == {Coords(6, 4, 4, 4), Coords(1, 4, 4, 4)}

\* 'move' up to the turn check: lookup by game_id, 'Not your turn', 'Game
\* not found or invalid move data'; a passed check leaves the thread in
\* front of game.make_move with the game object and the move in its locals
MoveCheck(p, game_id, move) ==
    /\ p \in players
    /\ pc[p] = Idle
    /\ received' = [type |-> "move", player |-> p, game_id |-> game_id, move |-> move]
    /\ IF game_id \in RegIds(registry) /\ move # EmptyMove
       THEN LET g == RegGet(registry, game_id)
            IN  IF ~is_player_turn(p, heap[g])
                THEN /\ sent' = Send(p, ErrorMsg("Not your turn"))
                     /\ UNCHANGED <<pc, budget>>
                ELSE /\ sent' = << >>
                     /\ budget > 0
                     /\ budget' = budget - 1
                     /\ pc' = [pc EXCEPT ![p] = [at |-> "move", game |-> g,
                                                 move |-> move]]
       ELSE /\ sent' = Send(p, ErrorMsg("Game not found or invalid move data"))
            /\ UNCHANGED <<pc, budget>>
    /\ last_game_list' = Delivered(last_game_list, sent')
    /\ UNCHANGED <<players, accepted, pname, is_white, current_game, heap, registry,
                   next_game_id, broken, client, conn>>
    /\ clients' = Processed(Submitted(clients, received'), sent')

\* 'move' after the turn check passed: game.make_move and the notifications
MoveMake(p) ==
    /\ pc[p].at = "move"
    /\ LET g == pc[p].game
           move == pc[p].move
           r == make_move(heap[g], move.from_row, move.from_col,
                          move.to_row, move.to_col, is_white)
       IN  /\ heap' = [heap EXCEPT ![g] = r.game]
           /\ sent' = IF r.raised
                      THEN Send(p, ErrorMsg("Invalid move"))
                      ELSE MoveNotifications(p, r.game, move)
    /\ received' = Resumed(p)
    /\ pc' = [pc EXCEPT ![p] = Idle]
    /\ last_game_list' = Delivered(last_game_list, sent')
    /\ UNCHANGED <<players, accepted, pname, is_white, current_game, registry,
                   next_game_id, budget, broken, client, conn>>
    /\ clients' = Processed(Submitted(clients, received'), sent')

NextThreads ==
    \/ Accept
    \/ \E p \in PlayerIds, game_id \in GameIdInputs, name \in NameInputs :
            JoinLookup(p, game_id, name)
    \/ \E p \in PlayerIds : JoinEnter(p)
    \/ \E p \in PlayerIds : CreateRead(p)
    \/ \E p \in PlayerIds : CreateLoad(p)
    \/ \E p \in PlayerIds : CreateStore(p)
    \/ \E p \in PlayerIds, white \in {"True", "False"} : CreateRegister(p, white)
    \/ \E p \in PlayerIds : BroadcastStep(p)
    \/ \E p \in PlayerIds : DisconnectBegin(p)
    \/ \E p \in PlayerIds : DisconnectClose(p)
    \/ \E p \in PlayerIds, game_id \in GameIdInputs, move \in ThreadMoveInputs :
            MoveCheck(p, game_id, move)
    \/ \E p \in PlayerIds : MoveMake(p)

\* The registry after Accept, Accept, CreateGame(1, white): player 1 hosts
\* game 1 and waits for a guest, player 2 is in the lobby and was sent the
\* list that shows game 1.
InitThreads ==
    \E white \in {"True", "False"} :
        /\ players = {1, 2}
        /\ accepted = 2
        /\ pname = [p \in PlayerIds |-> DefaultName(p)]
        /\ is_white = [p \in PlayerIds |-> IF p = 1 THEN white ELSE None]
        /\ current_game = [p \in PlayerIds |-> IF p = 1 THEN 1 ELSE NoGame]
        /\ heap = <<NewGame(1, 1)>>
        /\ registry = <<[id |-> 1, game |-> 1]>>
        /\ next_game_id = 2
        /\ pc = [p \in PlayerIds |-> Idle]
        /\ received = [type |-> "create_game", player |-> 1]
        /\ sent = <<[to |-> 1, type |-> "game_created", game_id |-> 1,
                     is_white |-> white],
                    [to |-> 2, type |-> "game_list",
                     games |-> <<[id |-> 1, host |-> DefaultName(1)]>>]>>
        /\ budget = ThreadSteps
        /\ broken = {}
        /\ last_game_list = [p \in PlayerIds |->
                                 IF p = 2 THEN <<<<[id |-> 1, host |-> DefaultName(1)]>>>>
                                 ELSE << >>]
        /\ client = NewClient
        /\ clients = Unwatched
        /\ conn = NoStream

SpecThreads == InitThreads /\ [][NextThreads]_vars

(* ---------------------------------------------------------------------- *)
(* The rules engine of one client                                          *)
(*                                                                         *)
(* process_server_message applies the moves the server relays to           *)
(* self.board without looking at them, and the server relays whatever a    *)
(* peer sends: every placement of pieces that moves and captures lead to   *)
(* can stand on a client's board.  The boards below hold one piece (the    *)
(* subject) alone or with one pawn within MaxDist rows and columns of it;  *)
(* the standard position and the two-kings position are added.             *)
(* ---------------------------------------------------------------------- *)

EmptyBoard == [sq \in Squares |-> None]

\* the subject pieces and where they stand: every kind in the middle of the
\* board, the pawns also on their starting ranks, a king on the edge and
\* one in the corner
Subjects ==
    {[piece |-> kind, sq |-> <<4, 4>>] : kind \in WhitePieces \cup BlackPieces}
    \cup {[piece |-> "P", sq |-> <<6, 4>>], [piece |-> "p", sq |-> <<1, 3>>],
          [piece |-> "K", sq |-> <<7, 4>>], [piece |-> "k", sq |-> <<0, 0>>]}

\* the cells within MaxDist rows and columns of sq
Near(sq) ==
    {o \in Squares : o # sq /\ Abs(o[1] - sq[1]) <= MaxDist /\ Abs(o[2] - sq[2]) <= MaxDist}

\* the board b and the boards that add one pawn near sq to it
WithOther(b, sq) ==
    {b} \cup {[o \in Squares |-> IF o = add[1] THEN add[2] ELSE b[o]] :
                 add \in {o \in Near(sq) : b[o] = None} \X {"P", "p"}}

\* a white king on (7, 4) and a black king on (0, 4), nothing else
KingsBoard == [EmptyBoard EXCEPT ![<<7, 4>>] = "K", ![<<0, 4>>] = "k"]

RulesBoards ==
    UNION {WithOther([o \in Squares |-> IF o = s.sq THEN s.piece ELSE None], s.sq) :
              s \in Subjects}
    \cup {create_initial_board, KingsBoard}

\* a client that holds one of the boards and plays white or black; the
\* server is not looked at
InitRules ==
    /\ players = {}
    /\ accepted = 0
    /\ pname = [p \in PlayerIds |-> DefaultName(p)]
    /\ is_white = [p \in PlayerIds |-> None]
    /\ current_game = [p \in PlayerIds |-> NoGame]
    /\ heap = << >>
    /\ registry = << >>
    /\ next_game_id = 1
    /\ pc = [p \in PlayerIds |-> Idle]
    /\ received = [type |-> "init"]
    /\ sent = << >>
    /\ budget = 0
    /\ broken = {}
    /\ last_game_list = Unwatched
    /\ clients = Unwatched
    /\ conn = NoStream
    /\ \E board \in RulesBoards, white \in BOOLEAN :
           client = [NewClient EXCEPT !.board = board, !.is_white = white]

\* draw_board for the piece on (row, col), once it is the selected square:
\* valid_moves = self.get_valid_moves(row, col)
GetValidMoves(row, col) ==
    /\ client.selected_square = << >>
    /\ client.board[<<row, col>>] # None
    /\ client' = [client EXCEPT
                      !.selected_square = <<row, col>>,
                      !.valid_moves = get_valid_moves(client.board, client.is_white,
                                                      row, col)]
    /\ UNCHANGED <<players, accepted, pname, is_white, current_game, heap, registry,
                   next_game_id, pc, received, sent, budget, broken, last_game_list,
                   clients, conn>>

NextRules == \E row \in Rows, col \in Rows : GetValidMoves(row, col)

SpecRules == InitRules /\ [][NextRules]_vars

(* ---------------------------------------------------------------------- *)
(* The receive loop fed chunk by chunk                                     *)
(* ---------------------------------------------------------------------- *)

\* the byte streams a peer may send: well-formed UTF-8 of at most MaxStream
\* bytes
Streams ==
    {s \in UNION {[1..n -> Bytes] : n \in 0..MaxStream} : ~decode(s).raised}

\* a fresh server and one connection whose peer sends one of the streams;
\* nothing of it has been received yet (buffer = "")
InitFraming ==
    /\ players = {}
    /\ accepted = 0
    /\ pname = [p \in PlayerIds |-> DefaultName(p)]
    /\ is_white = [p \in PlayerIds |-> None]
    /\ current_game = [p \in PlayerIds |-> NoGame]
    /\ heap = << >>
    /\ registry = << >>
    /\ next_game_id = 1
    /\ pc = [p \in PlayerIds |-> Idle]
    /\ received = [type |-> "init"]
    /\ sent = << >>
    /\ budget = 0
    /\ broken = {}
    /\ last_game_list = Unwatched
    /\ client = NewClient
    /\ clients = Unwatched
    /\ \E s \in Streams : conn = [NoStream EXCEPT !.stream = s, !.wire = s]

\* one turn of the receive loop: recv returns the next n bytes of the
\* stream, the chunk is decoded on its own, added to the buffer, and every
\* complete line is dispatched; a decoding error ends the loop (the except
\* branch breaks, and the connection is closed)
Recv(n) ==
    /\ conn.open
    /\ n \in 1..Len(conn.wire)
    /\ LET data == decode(SubSeq(conn.wire, 1, n))
           rest == SubSeq(conn.wire, n + 1, Len(conn.wire))
       IN  IF data.raised
           THEN conn' = [conn EXCEPT !.wire = rest, !.open = FALSE]
           ELSE LET r == split_lines(conn.buffer \o data.text, conn.dispatched)
                IN  conn' = [conn EXCEPT !.wire = rest, !.buffer = r.buffer,
                                         !.dispatched = r.dispatched]
    /\ UNCHANGED <<players, accepted, pname, is_white, current_game, heap, registry,
                   next_game_id, pc, received, sent, budget, broken, last_game_list,
                   client, clients>>

NextFraming == \E n \in 1..MaxStream : Recv(n)

SpecFraming == InitFraming /\ [][NextFraming]_vars

(* ---------------------------------------------------------------------- *)
(* Two players at their clients                                            *)
(* ---------------------------------------------------------------------- *)

\* the state-changing operations explored from InitClients
ClientSteps == 3

\* the server after two connections were accepted; both players sit at a
\* client that has just been started and shows the lobby
InitClients ==
    /\ players = {1, 2}
    /\ accepted = 2
    /\ pname = [p \in PlayerIds |-> DefaultName(p)]
    /\ is_white = [p \in PlayerIds |-> None]
    /\ current_game = [p \in PlayerIds |-> NoGame]
    /\ heap = << >>
    /\ registry = << >>
    /\ next_game_id = 1
    /\ pc = [p \in PlayerIds |-> Idle]
    /\ received = [type |-> "accept", player |-> 2]
    /\ sent = << >>
    /\ budget = ClientSteps
    /\ broken = {}
    /\ last_game_list = Unwatched
    /\ client = NewClient
    /\ clients = [p \in {1, 2} |-> NewPlayerClient]
    /\ conn = NoStream

\* handle_mousedown in the lobby, on the "Create Game" button: create_game
\* is sent, and the server picks the colour
ClientCreate(p, white) ==
    /\ p \in DOMAIN clients
    /\ clients[p].in_lobby
    /\ CreateGame(p, white)

\* handle_mousedown in the lobby, on entry k of the game list: join_game
\* for available_games[k] is sent with the player's name
ClientJoin(p, k) ==
    /\ p \in DOMAIN clients
    /\ clients[p].in_lobby
    /\ k \in 1..Len(clients[p].available_games)
    /\ JoinGame(p, clients[p].available_games[k].id, pname[p])

\* handle_mousedown in a game: a click selects the piece on (from_row,
\* from_col), a second click on a square it may move to calls make_move,
\* which moves the piece on the client's board and sends the move
ClientMove(p, from_row, from_col) ==
    /\ p \in DOMAIN clients
    /\ clients[p].in_game /\ ~clients[p].is_game_over
    /\ clients[p].players_turn
    /\ clients[p].board[<<from_row, from_col>>] # None
    /\ \E to_row \in Rows, to_col \in Rows :
           /\ is_valid_move(clients[p].board, clients[p].is_white,
                            from_row, from_col, to_row, to_col)
           /\ Move(p, clients[p].game_id, Coords(from_row, from_col, to_row, to_col))

NextClients ==
    \/ \E p \in PlayerIds, white \in {"True", "False"} : ClientCreate(p, white)
    \/ \E p \in PlayerIds, k \in 1..MaxGames : ClientJoin(p, k)
    \/ \E p \in PlayerIds, from_row \in Rows, from_col \in Rows :
           ClientMove(p, from_row, from_col)

SpecClients == InitClients /\ [][NextClients]_vars

(* ---------------------------------------------------------------------- *)
(* Vocabulary of the properties                                            *)
(* ---------------------------------------------------------------------- *)

\* the colour a player moves for: "white", "black", or None before any game
ColourOf(p) ==
    CASE is_white[p] = "True" -> "white"
      [] is_white[p] = "False" -> "black"
      [] OTHER -> None

\* the step handled a move message that names the registered session g
MoveStep(g) ==
    /\ received'.type = "move"
    /\ received'.game_id = g
    /\ g \in DOMAIN games

\* ... and the message carried coordinates
MoveStepWithCoords(g) == MoveStep(g) /\ received'.move # EmptyMove

\* the step wrote an error reply
ErrorReplied == \E i \in 1..Len(sent') : sent'[i].type = "error"

\* the step wrote a game_over message
GameOverSent == \E i \in 1..Len(sent') : sent'[i].type = "game_over"

\* the step left board, turn colour and move log of session g as they were
SessionUntouched(g) ==
    /\ g \in DOMAIN games'
    /\ games'[g].board = games[g].board
    /\ games'[g].current_turn = games[g].current_turn
    /\ games'[g].moves = games[g].moves

\* the step appended one entry to the move log of session g
Appended(g) ==
    /\ g \in DOMAIN games'
    /\ Len(games'[g].moves) = Len(games[g].moves) + 1

\* the step applied a move to session g: a piece was moved and logged, and
\* no error was replied
Accepted(g) == MoveStepWithCoords(g) /\ Appended(g) /\ ~ErrorReplied

\* the step carried a move of a piece through make_move on session g
\* (whatever the notifications that followed)
Applied(g) ==
    /\ MoveStepWithCoords(g)
    /\ Appended(g)
    /\ games'[g].moves[Len(games'[g].moves)].piece # None

\* the registered sessions that wait for a guest: guest unset and not over
OpenIds == {g \in GameIds : games[g].guest = NoPlayer /\ ~games[g].is_over}

\* the game_list messages the step wrote
GameListsSent == {sent'[i].games : i \in {j \in 1..Len(sent') : sent'[j].type = "game_list"}}

\* the step wrote a message of the given type to player p
SentTo(p, type) == \E i \in 1..Len(sent') : sent'[i].to = p /\ sent'[i].type = type

\* the registered sessions player p is host or guest of
SessionsOf(p) == {g \in GameIds : p \in {games[g].host, games[g].guest}}

\* the ChessGame object g is a value of ChessServer.games
Registered(g) == \E id \in GameIds : RegGet(registry, id) = g

\* the game_over messages the step wrote to player p
GameOversTo(p) == {i \in 1..Len(sent') : sent'[i].to = p /\ sent'[i].type = "game_over"}

\* the board after the white pawn went from (6, 4) to (4, 4)
BoardAfterE4 ==
    [create_initial_board EXCEPT ![<<6, 4>>] = None, ![<<4, 4>>] = "P"]

(* ---------------------------------------------------------------------- *)
(* Properties                                                              *)
(* ---------------------------------------------------------------------- *)

\* C1: whenever a move message is answered with an error reply, the
\* addressed session's board, turn colour and move log are what they were
\* before the message was processed.
C1_ErrorReplyLeavesSessionUnchanged ==
    [][\A g \in GameIdInputs : MoveStep(g) /\ ErrorReplied => SessionUntouched(g)]_vars

\* C2: after every accepted move the turn colour is the opposite of what it
\* was, and the turn colours recorded in the move log alternate white,
\* black, white, ... starting with white.
C2_TurnAlternates ==
    /\ [][\A g \in GameIdInputs :
            Accepted(g) => games'[g].current_turn = OtherTurn(games[g].current_turn)]_vars
    /\ [](\A g \in GameIds : \A i \in 1..Len(games[g].moves) :
            games[g].moves[i].turn = IF i % 2 = 1 THEN "white" ELSE "black")

\* C3: every move appended to a session's move log was legal under the rules
\* engine for the mover's colour on the board as it stood before the move,
\* and a move the rules engine rejects gets an error reply and leaves the
\* session untouched.
C3_OnlyLegalMovesApplied ==
    [][\A g \in GameIdInputs :
          LET m == received'.move
              legal == is_valid_move(games[g].board, is_white[received'.player] = "True",
                                     m.from_row, m.from_col, m.to_row, m.to_col)
          IN  /\ MoveStepWithCoords(g) /\ Appended(g) => legal
              /\ MoveStepWithCoords(g) /\ ~legal => ErrorReplied /\ SessionUntouched(g)]_vars

\* C4: a move message (with coordinates, naming a registered session) from a
\* player whose colour is not the session's turn colour is answered with
\* 'Not your turn' to that player and nothing else, and neither the session
\* nor anything else in the registry changes.
C4_NotYourTurnRejected ==
    [][\A g \in GameIdInputs :
          MoveStepWithCoords(g) /\ ColourOf(received'.player) # games[g].current_turn
          => /\ sent' = <<[to |-> received'.player, type |-> "error",
                           message |-> "Not your turn"]>>
             /\ games' = games
             /\ UNCHANGED <<players, is_white, current_game, pname, next_game_id>>]_vars

\* C4 witness: the black player of a game in which white has moved and black
\* has answered sends another move and is told 'Not your turn'
C4_Witness ==
    /\ received.type = "move"
    /\ received.game_id \in GameIds
    /\ received.player = games[received.game_id].guest
    /\ ColourOf(received.player) = "black"
    /\ games[received.game_id].current_turn = "white"
    /\ Len(games[received.game_id].moves) = 2
    /\ sent = <<[to |-> received.player, type |-> "error", message |-> "Not your turn"]>>

\* C5: in an active session in the standard initial position the white
\* player's pawn move (6,4) -> (4,4) succeeds, and the black player's
\* immediately following move (1,4) -> (4,4) is answered with 'Not your
\* turn' and leaves the board as it was after white's move.
C5_BlackReplyRejected ==
    [][\A g \in GameIdInputs :
          /\ ( /\ MoveStepWithCoords(g)
               /\ games[g].guest # NoPlayer
               /\ games[g].board = create_initial_board
               /\ games[g].moves = << >>
               /\ received'.player \in {games[g].host, games[g].guest}
               /\ ColourOf(received'.player) = "white"
               /\ received'.move = Coords(6, 4, 4, 4)
               => Accepted(g) /\ games'[g].board = BoardAfterE4 )
          /\ ( /\ MoveStepWithCoords(g)
               /\ received.type = "move"
               /\ received.game_id = g
               /\ received.move = Coords(6, 4, 4, 4)
               /\ games[g].board = BoardAfterE4
               /\ Len(games[g].moves) = 1
               /\ received'.player \in {games[g].host, games[g].guest}
               /\ ColourOf(received'.player) = "black"
               /\ received'.move = Coords(1, 4, 4, 4)
               => /\ sent' = <<[to |-> received'.player, type |-> "error",
                                message |-> "Not your turn"]>>
                  /\ games'[g].board = BoardAfterE4
                  /\ games'[g].board[<<1, 4>>] = "p" )]_vars

\* C6: when a king is absent from the board after a move was applied, the
\* session is over with result "checkmate" and its winner is the player who
\* made that move.
C6_KingCaptureWinsForMover ==
    [][\A g \in GameIdInputs :
          /\ Applied(g)
          /\ (~KingExists(games'[g].board, "K") \/ ~KingExists(games'[g].board, "k"))
          => /\ games'[g].is_over
             /\ games'[g].result = "checkmate"
             /\ games'[g].winner = received'.player]_vars

\* C7: a session carries the result "50-move rule" only with more than 200
\* log entries, over and without winner; an applied move leaves the session
\* with that result exactly when it leaves more than 200 entries in the log, and then host and guest (those still connected) are
\* each sent game_over with winner None.
C7_FiftyMoveRule ==
    /\ [](\A g \in GameIds :
            games[g].result = "50-move rule"
            => Len(games[g].moves) > 200 /\ games[g].is_over /\ games[g].winner = NoPlayer)
    /\ [][\A g \in GameIdInputs :
            Applied(g) =>
              /\ games'[g].result = "50-move rule" <=> Len(games'[g].moves) > 200
              /\ Len(games'[g].moves) > 200 /\ games[g].guest # NoPlayer
                 => \A p \in {games[g].host, games[g].guest} \cap players :
                       \E i \in 1..Len(sent') :
                           sent'[i] = [to |-> p, type |-> "game_over",
                                       winner |-> None, result |-> "50-move rule"]]_vars

\* C7 witness: the 201st move of game 1 was just applied, the game is over by
\* the 50-move rule and both players were told so
C7_Witness ==
    /\ received.type = "move"
    /\ 1 \in GameIds
    /\ Len(games[1].moves) = 201
    /\ games[1].moves[201].piece # None
    /\ games[1].result = "50-move rule"
    /\ games[1].winner = NoPlayer
    /\ \A p \in {1, 2} :
          \E i \in 1..Len(sent) :
              sent[i] = [to |-> p, type |-> "game_over",
                         winner |-> None, result |-> "50-move rule"]

\* C8: once a session is over, no move message for it is accepted, its
\* board, turn colour, move log, winner and result never change, and no
\* game_over is sent for it again.
C8_OverIsTerminal ==
    [][\A g \in GameIdInputs :
          g \in DOMAIN games /\ games[g].is_over
          => /\ MoveStep(g) => ErrorReplied /\ ~GameOverSent
             /\ g \in DOMAIN games'
                => /\ SessionUntouched(g)
                   /\ games'[g].winner = games[g].winner
                   /\ games'[g].result = games[g].result]_vars

\* C9: a session that is over is not in the registry, and no connected
\* player's current_game is a session that is over or gone.
C9_OverSessionsRemoved ==
    /\ \A g \in GameIds : ~games[g].is_over
    /\ \A p \in players :
          current_game[p] # NoGame
          => /\ \E g \in GameIds : RegGet(registry, g) = current_game[p]
             /\ ~heap[current_game[p]].is_over

\* C10, as stated: a move that ends the game leaves the turn colour with the
\* mover; the turn colour flips only when the game is not over after the move.
C10_NoFlipWhenOver ==
    [][\A g \in GameIdInputs :
          Applied(g) =>
             games'[g].current_turn =
                IF games'[g].is_over THEN games[g].current_turn
                ELSE OtherTurn(games[g].current_turn)]_vars

\* C10, amended: every applied move flips the turn colour, the move that ends
\* the game included: after it the turn colour is the colour opposite to the
\* one that was to move.
C10_FlipAlsoWhenOver ==
    [][\A g \in GameIdInputs :
          Applied(g) =>
             games'[g].current_turn = OtherTurn(games[g].current_turn)]_vars

\* C10 witness: white's first move ended game 1 and it is black's turn
C10_Witness ==
    /\ received.type = "move"
    /\ 1 \in GameIds
    /\ Len(games[1].moves) = 1
    /\ games[1].moves[1].piece # None
    /\ games[1].moves[1].turn = "white"
    /\ games[1].is_over
    /\ games[1].result = "checkmate"
    /\ games[1].current_turn = "black"

\* C11: every open-game list sent holds exactly the registered sessions whose
\* guest is unset and that are not over, each once, in ascending id order,
\* with the host's name; a session is in the list right after its
\* create_game, is out of it after a successful join_game on it, and is out
\* of it once its host has disconnected.
C11_OpenGameList ==
    /\ [][\A l \in GameListsSent :
            /\ {l[k].id : k \in DOMAIN l} = OpenIds'
            /\ \A k \in DOMAIN l : l[k].host = pname'[games'[l[k].id].host]
            /\ \A j, k \in DOMAIN l : j < k => l[j].id < l[k].id]_vars
    /\ [][received'.type = "create_game" => next_game_id \in OpenIds']_vars
    /\ [][received'.type = "join_game" /\ SentTo(received'.player, "game_joined")
            => received'.game_id \notin OpenIds']_vars
    /\ [](\A g \in OpenIds : games[g].host \in players)

\* C12: a join_game that names a registered session whose guest is already
\* set is answered with exactly one reply, the error 'Game is already full'
\* to the requester (so no game_joined and no opponent_joined is written),
\* and the session's host, guest, board, turn colour and move log stay as
\* they were.
C12_FullGameRefused ==
    [][\A g \in GameIdInputs :
          /\ received'.type = "join_game"
          /\ received'.game_id = g
          /\ g \in GameIds
          /\ games[g].guest # NoPlayer
          => /\ sent' = <<[to |-> received'.player, type |-> "error",
                           message |-> "Game is already full"]>>
             /\ g \in DOMAIN games'
             /\ games'[g] = games[g]]_vars

\* C12 witness: a third player asked to join the game of players 1 and 2
\* and was refused; the game still has its guest
C12_Witness ==
    /\ received.type = "join_game"
    /\ received.game_id \in GameIds
    /\ games[received.game_id].guest \notin {NoPlayer, received.player}
    /\ games[received.game_id].host # received.player
    /\ sent = <<[to |-> received.player, type |-> "error",
                 message |-> "Game is already full"]>>

\* C14: a join_game that fails (the id names no registered session, or the
\* session's guest is already set) sends exactly one error reply, to the
\* requester, and leaves the registry as it was: the set of sessions, every
\* session's host and guest, and every connected player's display name,
\* colour and current_game.
C14_FailedJoinChangesNothing ==
    [][/\ received'.type = "join_game"
       /\ (received'.game_id \notin GameIds \/ games[received'.game_id].guest # NoPlayer)
       => /\ Len(sent') = 1
          /\ sent'[1].to = received'.player
          /\ sent'[1].type = "error"
          /\ DOMAIN games' = DOMAIN games
          /\ \A g \in GameIds :
                games'[g].host = games[g].host /\ games'[g].guest = games[g].guest
          /\ players' = players
          /\ \A p \in players :
                /\ pname'[p] = pname[p]
                /\ is_white'[p] = is_white[p]
                /\ current_game'[p] = current_game[p]]_vars

\* C15: in every registered session whose guest is set, host and guest have
\* opposite colours: one is white and the other is black.
C15_OppositeColours ==
    \A g \in GameIds :
        games[g].guest # NoPlayer
        => {is_white[games[g].host], is_white[games[g].guest]} = {"True", "False"}

\* C17: a connected player's current_game is set exactly when the player is
\* host or guest of exactly one registered session that is not over; no
\* player is host or guest of two registered sessions; and a current_game
\* that is set refers to a registered session.
C17_OneSessionPerPlayer ==
    /\ \A p \in players :
          current_game[p] # NoGame
          <=> Cardinality({g \in SessionsOf(p) : ~games[g].is_over}) = 1
    /\ \A p \in PlayerIds : Cardinality(SessionsOf(p)) <= 1
    /\ \A p \in players : current_game[p] # NoGame => Registered(current_game[p])

\* C18: when the host or the guest of a registered two-player session
\* disconnects, the other player (still connected) is sent exactly one
\* game_over, with its own name as winner and the result
\* "opponent_disconnected", its current_game is cleared, and the session is
\* no longer registered.
C18_OpponentDisconnected ==
    [][\A g \in GameIdInputs :
          /\ received'.type = "disconnect"
          /\ g \in GameIds
          /\ games[g].guest # NoPlayer
          /\ games[g].guest # games[g].host
          /\ received'.player \in {games[g].host, games[g].guest}
          /\ {games[g].host, games[g].guest} \subseteq players
          => LET other == CHOOSE q \in {games[g].host, games[g].guest} :
                              q # received'.player
             IN  /\ Cardinality(GameOversTo(other)) = 1
                 /\ \A i \in GameOversTo(other) :
                       /\ sent'[i].winner = pname[other]
                       /\ sent'[i].result = "opponent_disconnected"
                 /\ current_game'[other] = NoGame
                 /\ g \notin DOMAIN games']_vars

\* C20: a line that is no JSON, or a message whose kind is not handled, is
\* answered with exactly one error reply, sent to the sender, and changes
\* nothing in the registry; the sender stays connected.
C20_BadLineGetsOneError ==
    [][received'.type \in {"malformed", "unknown"}
       => /\ Len(sent') = 1
          /\ sent'[1].to = received'.player
          /\ sent'[1].type = "error"
          /\ UNCHANGED <<players, pname, is_white, current_game, heap, registry,
                         next_game_id>>]_vars

\* C13: when two players ask to join the same waiting session on their own
\* connection threads, only one of them becomes its guest: game_joined (and
\* with it opponent_joined to the host) is written only for a joiner who
\* found the session's guest unset and took the place, and no connected
\* player holds a current_game whose guest is another player without being
\* its host.
C13_OneJoinerWins ==
    /\ [][\A p \in PlayerIds :
            SentTo(p, "game_joined") => heap[current_game'[p]].guest = NoPlayer]_vars
    /\ [](\A p \in players :
            current_game[p] # NoGame /\ heap[current_game[p]].guest \notin {NoPlayer, p}
            => heap[current_game[p]].host = p)

\* C16: next_game_id never decreases, no two sessions ever created carry the
\* same id, and a registered session is never replaced under its id by
\* another one, however the create_game handlers of different connection
\* threads interleave.
C16_UniqueSessionIds ==
    /\ [][next_game_id' >= next_game_id]_vars
    /\ [](\A i, j \in DOMAIN heap : i # j => heap[i].id # heap[j].id)
    /\ [][\A id \in RegIds(registry) \cap RegIds(registry') :
            RegGet(registry', id) = RegGet(registry, id)]_vars

\* C19: a connection thread that ran disconnect_player has ended only with
\* its player removed from the connected players and the player's session
\* removed from the registry: the clean-up is never left half done, whatever
\* the accept loop and the other threads do meanwhile.
C19_CleanupCompletes ==
    \A p \in PlayerIds :
        pc[p].at = "ended"
        => /\ p \notin players
           /\ current_game[p] # NoGame => ~Registered(current_game[p])

\* C21: a failed write is fatal to the connection.  Whenever a move is
\* applied to a session and the write of the move to the opponent fails
\* because the opponent's connection is broken, the step runs the disconnect
\* cleanup for the opponent: the opponent is no longer a connected player,
\* the mover is sent a game_over and the session is removed from the registry.
C21_FailedWriteDisconnects ==
    [][\A g \in GameIds :
          LET mover == received'.player
              opponent == IF mover = games[g].host THEN games[g].guest
                          ELSE games[g].host
          IN  Accepted(g) /\ mover \notin broken /\ opponent \in players \cap broken
              => /\ opponent \notin players'
                 /\ SentTo(mover, "game_over")
                 /\ g \notin DOMAIN games']_vars

\* C22: a move message changes only the session its sender belongs to.  A
\* step that handles a move naming a registered session of which the sender
\* is neither host nor guest leaves the board, the turn colour and the move
\* log of that session as they were.
C22_OutsiderMoveChangesNothing ==
    [][\A g \in GameIds :
          MoveStep(g) /\ received'.player \notin {games[g].host, games[g].guest}
          => SessionUntouched(g)]_vars

\* C23: moves are accepted only in an active session.  A step that handles
\* a move the host sends for its own session while the guest is unset leaves
\* the board in the initial position, the turn colour white and the move log
\* empty.
C23_WaitingSessionStaysInitial ==
    [][\A g \in GameIds :
          /\ MoveStep(g)
          /\ received'.player = games[g].host
          /\ games[g].guest = NoPlayer
          /\ games[g].board = create_initial_board
          /\ games[g].current_turn = "white"
          /\ games[g].moves = << >>
          => /\ g \in DOMAIN games'
             /\ games'[g].board = create_initial_board
             /\ games'[g].current_turn = "white"
             /\ games'[g].moves = << >>]_vars

\* C24: the moves on one session are serialized.  Between the turn check
\* of a move and the end of its make_move no other connection thread has
\* passed the turn check for the same session: no two threads stand between
\* turn check and make_move on the same game.
C24_MovesSerialized ==
    \A p, q \in PlayerIds :
        p # q /\ pc[p].at = "move" /\ pc[q].at = "move" => pc[p].game # pc[q].game

\* every connection thread waits in recv or has ended: no operation is under way
Quiet == \A p \in PlayerIds : pc[p].at \in {"recv", "ended"}

\* the session ids of a game_list
ListedIds(list) == {list[i].id : i \in 1..Len(list)}

\* C25: no stale open-game list.  Once all operations have finished, the
\* last game_list that a player waiting in the lobby has received lists
\* exactly the sessions that are open.
C25_NoStaleGameList ==
    Quiet => \A p \in players :
                 pc[p] = Idle /\ current_game[p] = NoGame /\ last_game_list[p] # << >>
                 => ListedIds(last_game_list[p][1]) = OpenIds

(* ---------------------------------------------------------------------- *)
(* Properties of the rules engine                                          *)
(* ---------------------------------------------------------------------- *)

\* get_valid_moves has been applied to a square
Selected == client.selected_square # << >>

\* the piece on the square get_valid_moves was applied to
Piece == client.board[client.selected_square]

\* that piece has the colour the client plays
Owned == IF client.is_white THEN isupper(Piece) ELSE islower(Piece)

\* get_valid_moves returned the cell to
Legal(to) == \E i \in 1..Len(client.valid_moves) : client.valid_moves[i] = to

\* the cell holds a piece of the other colour than piece
Enemy(piece, cell) ==
    /\ client.board[cell] # None
    /\ isupper(client.board[cell]) # isupper(piece)

Sign(n) == IF n > 0 THEN 1 ELSE IF n < 0 THEN -1 ELSE 0

\* two different cells on one rank, file or diagonal
Aligned(from, to) ==
    /\ from # to
    /\ \/ from[1] = to[1]
       \/ from[2] = to[2]
       \/ Abs(to[1] - from[1]) = Abs(to[2] - from[2])

\* the cells strictly between two aligned cells
StrictlyBetween(from, to) ==
    LET far == IF Abs(to[1] - from[1]) > Abs(to[2] - from[2])
               THEN Abs(to[1] - from[1]) ELSE Abs(to[2] - from[2])
    IN  {<<from[1] + k * Sign(to[1] - from[1]), from[2] + k * Sign(to[2] - from[2])>> :
            k \in 1..(far - 1)}

\* C26: every rook, bishop or queen move the rules engine accepts runs
\* along a rank, file or diagonal over empty cells only; and a rook, bishop
\* or queen move along a rank, file or diagonal with an occupied cell
\* strictly between source and destination is rejected.
C26_SlidersDoNotJump ==
    Selected /\ upper(Piece) \in {"R", "B", "Q"}
    => \A to \in Squares :
          LET from == client.selected_square
          IN  /\ Legal(to) => /\ Aligned(from, to)
                              /\ \A sq \in StrictlyBetween(from, to) :
                                     client.board[sq] = None
              /\ /\ Aligned(from, to)
                 /\ \E sq \in StrictlyBetween(from, to) : client.board[sq] # None
                 => ~Legal(to)

\* a queen was asked for her moves with a pawn in her way: a cell behind
\* the pawn is refused and a cell two steps away on a free line is returned
C26_Witness ==
    /\ Selected
    /\ upper(Piece) = "Q"
    /\ \E to \in Squares :
          /\ Aligned(client.selected_square, to)
          /\ \E sq \in StrictlyBetween(client.selected_square, to) : client.board[sq] # None
          /\ ~Legal(to)
    /\ \E to \in Squares :
          Legal(to) /\ StrictlyBetween(client.selected_square, to) # {}

\* the row direction a pawn advances in: white toward row 0, black toward row 7
Forward(piece) == IF isupper(piece) THEN -1 ELSE 1

\* the rank a pawn starts on: row 6 for white, row 1 for black
StartRow(piece) == IF isupper(piece) THEN 6 ELSE 1

\* C27: a pawn move over two rows is accepted only from the pawn's starting
\* rank, straight forward in its column, and only if the cell it passes and
\* the cell it lands on are both empty.
C27_PawnDoubleStep ==
    Selected /\ upper(Piece) = "P"
    => \A to \in Squares :
          LET from == client.selected_square
          IN  Legal(to) /\ Abs(to[1] - from[1]) = 2
              => /\ from[1] = StartRow(Piece)
                 /\ to[2] = from[2]
                 /\ to[1] = from[1] + 2 * Forward(Piece)
                 /\ client.board[<<from[1] + Forward(Piece), from[2]>>] = None
                 /\ client.board[to] = None

\* a pawn on its starting rank was asked for its moves and the cell two
\* rows ahead was returned
C27_Witness ==
    /\ Selected
    /\ upper(Piece) = "P"
    /\ client.selected_square[1] = StartRow(Piece)
    /\ Legal(<<client.selected_square[1] + 2 * Forward(Piece), client.selected_square[2]>>)

\* C28: a pawn's step straight ahead is accepted only onto an empty cell;
\* its diagonal step ahead is accepted exactly when the cell holds an enemy
\* piece (for a pawn of the client's colour); every accepted pawn move goes
\* forward, by one row or by two rows in its column: never backward or
\* sideways.
C28_PawnSteps ==
    Selected /\ upper(Piece) = "P"
    => \A to \in Squares :
          LET from == client.selected_square
              ahead == to[1] = from[1] + Forward(Piece)
          IN  /\ Legal(to) /\ ahead /\ to[2] = from[2] => client.board[to] = None
              /\ Owned /\ ahead /\ Abs(to[2] - from[2]) = 1
                 => (Legal(to) <=> Enemy(Piece, to))
              /\ Legal(to) => \/ ahead /\ Abs(to[2] - from[2]) <= 1
                              \/ to[1] = from[1] + 2 * Forward(Piece) /\ to[2] = from[2]

\* a pawn was asked for its moves with an enemy piece diagonally ahead:
\* the capture and the step straight ahead were returned, the other
\* diagonal was not
C28_Witness ==
    /\ Selected
    /\ upper(Piece) = "P"
    /\ \E side \in {-1, 1} :
          LET from == client.selected_square
              row == from[1] + Forward(Piece)
          IN  /\ <<row, from[2] + side>> \in Squares
              /\ <<row, from[2] - side>> \in Squares
              /\ Enemy(Piece, <<row, from[2] + side>>)
              /\ Legal(<<row, from[2] + side>>)
              /\ Legal(<<row, from[2]>>)
              /\ ~Legal(<<row, from[2] - side>>)

\* C29: the rules engine rejects every move of a piece that is not of the
\* client's colour and every move onto a cell that holds a piece of the
\* client's colour, for every piece kind; so the list get_valid_moves
\* returns never holds the square of the piece itself.
C29_OwnPiecesOnly ==
    Selected
    => /\ ~Owned => client.valid_moves = << >>
       /\ \A to \in Squares :
             /\ client.board[to] # None
             /\ isupper(client.board[to]) = client.is_white
             => ~Legal(to)
       /\ ~Legal(client.selected_square)

\* a piece of the client's colour was asked for its moves while a second
\* piece of that colour stood on a cell the piece could otherwise go to,
\* and some move was returned
C29_Witness ==
    /\ Selected
    /\ Owned
    /\ client.valid_moves # << >>
    /\ \E to \in Squares :
          /\ to # client.selected_square
          /\ client.board[to] # None
          /\ isupper(client.board[to]) = client.is_white
          /\ is_valid_move([client.board EXCEPT ![to] = None], client.is_white,
                           client.selected_square[1], client.selected_square[2],
                           to[1], to[2])

\* the cells next to a cell, on the board
Adjacent(from) ==
    {to \in Squares : to # from /\ Abs(to[1] - from[1]) <= 1 /\ Abs(to[2] - from[2]) <= 1}

\* C30: with nothing but a white king on (7, 4) and a black king on (0, 4)
\* on the board, get_valid_moves for the white king returns exactly
\* (6, 3), (6, 4), (6, 5), (7, 3) and (7, 5); in general the cells returned
\* for a king of the client's colour are exactly the adjacent cells on the
\* board that are empty or hold an enemy piece.
C30_KingMoves ==
    /\ /\ client.board = KingsBoard
       /\ client.is_white
       /\ client.selected_square = <<7, 4>>
       => {client.valid_moves[i] : i \in 1..Len(client.valid_moves)}
             = {<<6, 3>>, <<6, 4>>, <<6, 5>>, <<7, 3>>, <<7, 5>>}
    /\ Selected /\ upper(Piece) = "K" /\ Owned
       => \A to \in Squares :
             Legal(to) <=> /\ to \in Adjacent(client.selected_square)
                           /\ client.board[to] = None \/ Enemy(Piece, to)

\* the white client asked for the moves of its king in the two-kings position
C30_Witness ==
    /\ client.board = KingsBoard
    /\ client.is_white
    /\ client.selected_square = <<7, 4>>
    /\ Len(client.valid_moves) = 5

\* C31: a pawn that reaches the far rank is promoted as part of the move.
\* After a step that applied a move to a session, no pawn stands on row 0 or
\* row 7 of the session's board.
C31_NoPawnOnLastRows ==
    [][\A g \in GameIds :
          Accepted(g)
          => \A col \in Rows : /\ games'[g].board[<<0, col>>] \notin {"P", "p"}
                               /\ games'[g].board[<<7, col>>] \notin {"P", "p"}]_vars

\* C32: the move log is append-only and faithful.  No step changes an
\* entry that is in the log of a session; a step that applies a move appends
\* exactly one entry, which holds the source, the destination, the piece that
\* stood on the source, what stood on the destination and the turn colour;
\* a step that answers a move with an error appends nothing.
C32_MoveLogAppendOnly ==
    [][\A g \in GameIds \cap DOMAIN games' :
          LET old == games[g].moves
              new == games'[g].moves
          IN  /\ Len(new) >= Len(old)
              /\ SubSeq(new, 1, Len(old)) = old
              /\ MoveStep(g) /\ ErrorReplied => new = old
              /\ Accepted(g)
                 => LET move == received'.move
                    IN  new = Append(old,
                              [from_row |-> move.from_row,
                               from_col |-> move.from_col,
                               to_row |-> move.to_row,
                               to_col |-> move.to_col,
                               piece |-> games[g].board[<<move.from_row, move.from_col>>],
                               captured |-> games[g].board[<<move.to_row, move.to_col>>],
                               turn |-> games[g].current_turn])]_vars

\* the places in the messages the step wrote that hold a message of the
\* given type
Written(type) == {i \in 1..Len(sent') : sent'[i].type = type}

\* C33: a step that applies a move of the host or the guest of a session
\* writes the move exactly once, to the mover's opponent, with the
\* coordinates received, and not to the mover; if the move ends the game,
\* host and guest are written exactly one game_over each, with the same
\* winner and result, and the opponent's comes after the move.
C33_MoveNotifications ==
    [][\A g \in GameIds :
          LET game == games[g]
              mover == received'.player
              opponent == IF mover = game.host THEN game.guest ELSE game.host
          IN  Accepted(g) /\ mover \in {game.host, game.guest}
              => /\ opponent # mover
                 /\ Cardinality(Written("move")) = 1
                 /\ \A i \in Written("move") :
                        sent'[i].to = opponent /\ sent'[i].move = received'.move
                 /\ games'[g].is_over /\ ~game.is_over
                    => /\ Cardinality(GameOversTo(game.host)) = 1
                       /\ Cardinality(GameOversTo(game.guest)) = 1
                       /\ \A i, j \in Written("game_over") :
                              /\ sent'[i].winner = sent'[j].winner
                              /\ sent'[i].result = sent'[j].result
                       /\ \A i \in Written("move"), j \in GameOversTo(opponent) : i < j]_vars

\* the step changed the lobby: it handled a create_game, a join_game that
\* let the player in, or the disconnect of a player whose current_game was set
LobbyChanged ==
    \/ received'.type = "create_game"
    \/ received'.type = "join_game" /\ SentTo(received'.player, "game_joined")
    \/ received'.type = "disconnect" /\ current_game[received'.player] # NoGame

Frames == split_lines(decode(conn.stream).text, << >>)

\* C35: message framing does not depend on how the byte stream is chunked.
\* Whatever chunks the stream arrives in, the receive loop keeps running,
\* the messages dispatched so far are the first newline-terminated messages
\* of the stream in their order, and once the whole stream has been received
\* every message of the stream has been dispatched and the unterminated tail
\* is what the buffer holds.
C35_FramingIndependentOfChunks ==
    /\ conn.open
    /\ Len(conn.dispatched) <= Len(Frames.dispatched)
    /\ conn.dispatched = SubSeq(Frames.dispatched, 1, Len(conn.dispatched))
    /\ conn.wire = << >>
           => /\ conn.dispatched = Frames.dispatched
              /\ conn.buffer = Frames.buffer

\* C36: the clients' boards stay consistent with the server.  After every
\* step (all messages written in it are processed by the clients), the board
\* of every client that takes part in a registered session equals the
\* session's board, from the creation of the session on, and of the two
\* clients of a session with a guest at most one has players_turn set.
C36_ClientBoardsFollowServer ==
    \A g \in GameIds :
        /\ \A p \in {games[g].host, games[g].guest} \cap DOMAIN clients :
               clients[p].board = games[g].board
        /\ {games[g].host, games[g].guest} \subseteq DOMAIN clients
               => ~(clients[games[g].host].players_turn
                    /\ clients[games[g].guest].players_turn)

\* C37: the 50-move rule takes precedence over a missing king.  A move that
\* is applied to a session, leaves a king absent from its board and leaves
\* its log longer than 200 entries ends the session with the result
\* "50-move rule" and without a winner.
C37_FiftyMovesBeforeCheckmate ==
    [][\A g \in GameIdInputs :
          /\ Applied(g)
          /\ Len(games'[g].moves) > MoveLimit
          /\ ~(KingExists(games'[g].board, "K") /\ KingExists(games'[g].board, "k"))
          => /\ games'[g].is_over
             /\ games'[g].result = "50-move rule"
             /\ games'[g].winner = NoPlayer]_vars

\* C37 witness: the 201st move of game 1 took the black king, and the game
\* is over by the 50-move rule without a winner
C37_Witness ==
    /\ received.type = "move"
    /\ 1 \in GameIds
    /\ Len(games[1].moves) = MoveLimit + 1
    /\ games[1].moves[MoveLimit + 1].captured = "k"
    /\ ~KingExists(games[1].board, "k")
    /\ games[1].result = "50-move rule"
    /\ games[1].winner = NoPlayer

\* C38: after every step the host and the guest of a session are two distinct
\* connected players, and a join_game sent by the host of the session it names neither
\* makes that player the guest nor changes its colour.
C38_HostIsNotGuest ==
    [][/\ \A g \in DOMAIN games' :
             /\ games'[g].host \in players'
             /\ games'[g].guest # NoPlayer
                    => games'[g].guest \in players' /\ games'[g].guest # games'[g].host
       /\ \A g \in GameIds :
             received'.type = "join_game" /\ received'.game_id = g
             /\ received'.player = games[g].host
             => /\ games'[g].guest # games[g].host
                /\ is_white'[games[g].host] = is_white[games[g].host]]_vars

====================================================================
